---- MODULE Spec2Model ----
(***************************************************************************)
(* Lifecycle of one alarm/reminder entry of the HA Alarm Clock coordinator *)
(* (custom_components/ha_alarm_clock/coordinator.py, switch.py).           *)
(*                                                                         *)
(* The coordinator runs on one asyncio event loop: the code between two    *)
(* awaits of a coroutine is atomic, and every await on device I/O, on      *)
(* storage or on another task is a point where other coroutines run.  One  *)
(* action of this module is one such atomic segment.  Tasks made with      *)
(* hass.async_create_task are queued and begin in a later step.            *)
(*                                                                         *)
(* Time is counted in ticks of half a minute; a day is shortened to        *)
(* DayLen ticks, the week keeps its seven days.                            *)
(***************************************************************************)
EXTENDS Integers, FiniteSets, Sequences, TLC

MinuteLen == 2
DayLen == 2 * MinuteLen
StartTick == 11 * DayLen + 1        \* a Friday, half a minute past midnight

MaxElapsed == 2                     \* ticks the clock may advance
MaxCmds == 1                        \* service calls in one behaviour of Spec
MaxSeqCmds == 2                     \* service calls in one behaviour of the other specifications
MaxTasks == 2                       \* coroutines of commands and triggers in flight
MaxSess == 2                        \* playback tasks alive at once
MaxTrig == 1                        \* trigger tasks queued and not yet begun
MaxCycles == 2                      \* playback cycles of an item that the model tells apart
MaxDaysBack == 9                    \* days a candidate instant may lie before the start

MaxCells == MaxTasks + MaxSess + 2
MaxEv == MaxSess + 1

NoTime == -1
NoItem == [status |-> "none"]

ALL_WEEKDAYS == 0 .. 6
Repeats == {"once", "daily", "weekdays", "weekends", "custom"}

Weekday(t) == (t \div DayLen) % 7
TimeOfDay(t) == t % DayLen
DateOf(t) == t \div DayLen
Combine(date, tod) == date * DayLen + tod

(***************************************************************************)
(* Time rules                                                              *)
(***************************************************************************)
\* None and the empty set are both falsy for the callers; both are {} here.
resolve_repeat_weekdays(repeat, repeat_days) ==
    CASE repeat = "once" -> {}
      [] repeat = "daily" -> ALL_WEEKDAYS
      [] repeat = "weekdays" -> {0, 1, 2, 3, 4}
      [] repeat = "weekends" -> {5, 6}
      [] repeat = "custom" -> repeat_days
      [] OTHER -> {}

RECURSIVE nmw_loop(_, _, _, _)
nmw_loop(cursor, allowed_days, check_today, n) ==
    IF n = 0 THEN NoTime
    ELSE IF check_today /\ Weekday(cursor) \in allowed_days THEN cursor
    ELSE IF Weekday(cursor + DayLen) \in allowed_days THEN cursor + DayLen
    ELSE nmw_loop(cursor + DayLen, allowed_days, TRUE, n - 1)

next_matching_weekday(candidate, allowed_days, include_today) ==
    IF allowed_days = {} \/ allowed_days = ALL_WEEKDAYS THEN candidate
    ELSE nmw_loop(candidate, allowed_days, include_today, 7)

\* The bump loop run at most once.
efst_bump_once(candidate, allowed_days, reference_point) ==
    IF candidate > reference_point THEN candidate
    ELSE next_matching_weekday(candidate + DayLen, allowed_days, TRUE)

RECURSIVE efst_bump(_, _, _)
efst_bump(candidate, allowed_days, reference_point) ==
    IF candidate > reference_point THEN candidate
    ELSE LET aligned == next_matching_weekday(candidate + DayLen, allowed_days, TRUE)
         IN IF aligned = NoTime THEN NoTime
            ELSE efst_bump(aligned, allowed_days, reference_point)

ensure_future_schedule_time(scheduled_time, repeat, repeat_days, reference, force_advance) ==
    LET allowed_days == resolve_repeat_weekdays(repeat, repeat_days)
        repeat_key == IF repeat = "custom" /\ allowed_days = {} THEN "once" ELSE repeat
        aligned == next_matching_weekday(scheduled_time, allowed_days, TRUE)
    IN IF aligned = NoTime THEN NoTime
       ELSE IF repeat_key = "once"
            THEN (IF aligned <= reference THEN aligned + DayLen ELSE aligned)
       ELSE LET reference_point ==
                    IF force_advance /\ aligned > reference THEN aligned ELSE reference
            IN efst_bump(aligned, allowed_days, reference_point)

(***************************************************************************)
(* State                                                                   *)
(***************************************************************************)
VARIABLES
    now,                  \* dt_util.now(), in ticks
    loaded,               \* async_load_items has run
    heap,                 \* the item dicts, by object identity
    active_items,         \* _active_items[id]: the cell of the stored dict, 0 when absent
    scheduled_callbacks,  \* _scheduled_callbacks[id]: instant of the armed timer, or NoTime
    trigQ,                \* _trigger_item tasks created and not yet begun
    events,               \* the asyncio.Event objects
    stop_events,          \* _stop_events[id]: an event, 0 when absent
    sess,                 \* the playback tasks (_start_playback coroutines)
    playback_tasks,       \* _playback_tasks[id]: a playback task, 0 when absent
    playback_sessions,    \* _playback_sessions[id]: a session, 0 when absent
    tasks,                \* coroutines of commands and triggers in flight
    disk,                 \* the item as last persisted by the storage
    ncmd,                 \* service calls issued so far
    budget,               \* service calls the behaviour may issue
    par,                  \* commands that may be in flight at once
    last,                 \* the step just taken (history, read by the properties)
    player_volume_stack,  \* _player_volume_stack[player]: the entries, bottom first
    volume_level,         \* the player's volume_level attribute, NoTime when unknown
    volume_calls,         \* per item, the volume coroutine in flight
    volume_queue,         \* volume_set service calls issued and not yet carried out
    bottom_snapshot       \* snapshot of the entry pushed on the empty stack (history)

vars == <<now, loaded, heap, active_items, scheduled_callbacks, trigQ, events,
          stop_events, sess, playback_tasks, playback_sessions, tasks, disk, ncmd, budget,
          par, last, player_volume_stack, volume_level, volume_calls, volume_queue,
          bottom_snapshot>>
volvars == <<player_volume_stack, volume_level, volume_calls, volume_queue,
             bottom_snapshot>>

\* The items that play on the one player, and the volume coroutine of an
\* item: where it is, the level it asked for, how often it has applied its
\* override and whether it has asked for the restore.
VolItems == {"A", "B"}
NoVolCall == [pc |-> "idle", applied |-> 0, released |-> FALSE]
NoVolume ==
    /\ player_volume_stack = <<>>
    /\ volume_calls = [it \in VolItems |-> NoVolCall]
    /\ volume_queue = <<>>
    /\ bottom_snapshot = NoTime

Cells == 1 .. MaxCells
Evs == 1 .. MaxEv
SessIds == 1 .. MaxSess
TaskIds == 1 .. MaxTasks

\* The changes of an edit or reschedule call that bear on the schedule: a
\* time of day, a date, the enabled flag (NoTime and "keep" when absent), and
\* whether the call carries a value the handler rejects.
Ch(time, date, enabled, reject) ==
    [time |-> time, date |-> date, enabled |-> enabled, reject |-> reject]
NoChange == Ch(NoTime, NoTime, "keep", "none")
NoReq == [is_alarm |-> FALSE, named |-> FALSE, player |-> FALSE, repeat |-> "once"]
NoTask == [kind |-> "none", pc |-> "none", ref |-> 0, was_active |-> FALSE,
           reason |-> "none", await |-> 0, next_time |-> NoTime, minutes |-> 0,
           new_enabled |-> FALSE, pre |-> NoItem, at |-> NoTime, req |-> NoReq,
           ch |-> NoChange]
NoSess == [st |-> "none", cancel |-> FALSE, ev |-> 0, ref |-> 0, next_time |-> NoTime,
           media_started |-> FALSE, position |-> 0, duration |-> 0, failed |-> 0,
           family |-> "home_assistant"]
NoStep == [op |-> "none", pre |-> NoItem, at |-> NoTime, minutes |-> 0]

Item(status, enabled, repeat, days, sched, canon) ==
    [status |-> status, enabled |-> enabled, repeat |-> repeat, days |-> days,
     sched |-> sched, canon |-> canon, msp |-> FALSE]

\* The entry as the table shows it (NoItem when the id is absent).
Cur == IF active_items = 0 THEN NoItem ELSE heap[active_items]

Refs(ai, tk, ss) == {ai} \cup {tk[i].ref : i \in TaskIds} \cup {ss[s].ref : s \in SessIds}
FreeCell(ai, tk, ss) ==
    CHOOSE c \in Cells : c \notin Refs(ai, tk, ss)
                         /\ \A d \in 1 .. c - 1 : d \in Refs(ai, tk, ss)
EvRefs(se, ss) == {se} \cup {ss[s].ev : s \in SessIds}
FreeEv(se, ss) ==
    CHOOSE e \in Evs : e \notin EvRefs(se, ss) /\ \A d \in 1 .. e - 1 : d \in EvRefs(se, ss)
\* A slot of a finished task is not handed out while a stop still awaits it.
SessFree(s) == sess[s].st = "none" /\ \A i \in TaskIds : tasks[i].await # s
HasFreeSess == \E s \in SessIds : SessFree(s)
FreeSess == CHOOSE s \in SessIds : SessFree(s) /\ \A d \in 1 .. s - 1 : ~SessFree(d)

\* The next value of the object graph.  Dicts and events nobody refers to any
\* more are dropped, and the live ones are numbered in the order in which the
\* table, the coroutines and the playback tasks refer to them: an object's
\* identity matters, its address does not.
RefSeq(ai, tk, ss) ==
    [k \in 1 .. 1 + MaxTasks + MaxSess |->
        IF k = 1 THEN ai
        ELSE IF k <= 1 + MaxTasks THEN tk[k - 1].ref
        ELSE ss[k - 1 - MaxTasks].ref]
EvSeq(se, ss) == [k \in 1 .. 1 + MaxSess |-> IF k = 1 THEN se ELSE ss[k - 1].ev]
FirstAt(seq, c) == CHOOSE k \in DOMAIN seq : seq[k] = c /\ \A j \in 1 .. k - 1 : seq[j] # c
Used(seq) == {seq[k] : k \in DOMAIN seq} \ {0}
Rank(seq, c) ==
    IF c = 0 THEN 0
    ELSE Cardinality({d \in Used(seq) : FirstAt(seq, d) < FirstAt(seq, c)}) + 1
Unrank(seq, n) == CHOOSE c \in Used(seq) : Rank(seq, c) = n

Commit(h, ai, tk, ev, se, ss) ==
    LET rs == RefSeq(ai, tk, ss)
        es == EvSeq(se, ss)
    IN /\ heap' = [n \in Cells |-> IF n <= Cardinality(Used(rs))
                                    THEN h[Unrank(rs, n)] ELSE NoItem]
       /\ active_items' = Rank(rs, ai)
       /\ tasks' = [i \in TaskIds |-> [tk[i] EXCEPT !.ref = Rank(rs, @)]]
       /\ events' = [n \in Evs |-> IF n <= Cardinality(Used(es))
                                    THEN ev[Unrank(es, n)] ELSE "free"]
       /\ stop_events' = Rank(es, se)
       /\ sess' = [s \in SessIds |-> [ss[s] EXCEPT !.ref = Rank(rs, @), !.ev = Rank(es, @)]]

SetEv(ev, e) == IF e = 0 THEN ev ELSE [ev EXCEPT ![e] = "set"]

\* _cancel_scheduled_trigger is scheduled_callbacks' = NoTime in the actions.
\* _schedule_trigger: an instant already due queues the trigger task at once,
\* any other replaces the armed timer.
schedule_trigger(scheduled_time) ==
    IF scheduled_time <= now
    THEN /\ trigQ < MaxTrig
         /\ trigQ' = trigQ + 1
         /\ scheduled_callbacks' = NoTime
    ELSE /\ scheduled_callbacks' = scheduled_time
         /\ UNCHANGED trigQ

\* The history variable records the return of a command and what the item
\* was when the command began; every other step clears it.
\* What a command called for an id it does not find leaves behind: it returns
\* to the caller without raising.
IgnoredOps == {"stop_ignored", "snooze_ignored", "delete_ignored", "edit_ignored"}
DoneOps == {"stop_done", "snooze_done", "snooze_failed", "delete_done", "edit_done",
            "edit_rejected", "reschedule_done", "reschedule_rejected",
            "reschedule_expired", "enable_done", "disable_done", "schedule_done",
            "schedule_rejected", "load_done"} \cup IgnoredOps
StepAt(op, pre, at, minutes) ==
    last' = IF op \in DoneOps
            THEN [op |-> op, pre |-> pre, at |-> at, minutes |-> minutes]
            ELSE NoStep
Step(op, pre) == StepAt(op, pre, NoTime, 0)

\* _normalize_item_fields returns a copy: the table then holds a new dict and
\* whoever kept the old one keeps it.
Stored(h, ai, tk, ss, rec) ==
    LET c == FreeCell(ai, tk, ss) IN [h |-> [h EXCEPT ![c] = rec], ai |-> c]

\* _mark_item_expired: nothing for a missing or already expired item, otherwise
\* the status is set on the stored dict, a normalised copy is stored and saved.
mark_item_expired(h, ai, tk, ss) ==
    IF ai = 0 \/ h[ai].status = "expired"
    THEN [h |-> h, ai |-> ai, saved |-> FALSE]
    ELSE LET h1 == [h EXCEPT ![ai].status = "expired"]
             n == Stored(h1, ai, tk, ss, h1[ai])
         IN [h |-> n.h, ai |-> n.ai, saved |-> TRUE]

(***************************************************************************)
(* Start-up                                                                *)
(***************************************************************************)
Today == DateOf(StartTick)

\* What the storage may hold when the integration starts.
ScheduledOnce == Item("scheduled", TRUE, "once", {}, Combine(Today, 3), Combine(Today, 3))
MissedOnce ==
    Item("scheduled", TRUE, "once", {}, Combine(Today - 2, 3), Combine(Today - 2, 3))
ScheduledDaily == Item("scheduled", TRUE, "daily", {}, Combine(Today, 2), Combine(Today, 2))
ScheduledWeekdays ==
    Item("scheduled", TRUE, "weekdays", {}, Combine(Today - 1, 0), Combine(Today - 1, 0))
SnoozedDaily == Item("scheduled", TRUE, "daily", {}, Combine(Today, 2), Combine(Today, 0))
ActiveOnce == Item("active", TRUE, "once", {}, Combine(Today, 0), Combine(Today, 0))
ActiveDaily == Item("active", TRUE, "daily", {}, Combine(Today, 0), Combine(Today, 0))
ActiveWeekends ==
    Item("active", TRUE, "weekends", {}, Combine(Today - 5, 0), Combine(Today - 5, 0))
ActiveLateDaily ==
    Item("active", TRUE, "daily", {}, Combine(Today - 1, 3), Combine(Today - 1, 3))
DisabledDaily == Item("disabled", FALSE, "daily", {}, Combine(Today, 2), Combine(Today, 2))
StoppedOnce == Item("stopped", TRUE, "once", {}, Combine(Today, 0), Combine(Today, 0))
DisabledOnce ==
    Item("disabled", FALSE, "once", {}, Combine(Today - 2, 3), Combine(Today - 2, 3))
ActiveCustomNoDays ==
    Item("active", TRUE, "custom", {}, Combine(Today, 0), Combine(Today, 0))
ExpiredOnce == Item("expired", TRUE, "once", {}, Combine(Today - 1, 3), Combine(Today - 1, 3))

InitDisk ==
    { NoItem, ScheduledOnce, MissedOnce, ScheduledDaily, ScheduledWeekdays, SnoozedDaily, ActiveOnce,
      ActiveDaily, ActiveWeekends, ActiveLateDaily, DisabledDaily, DisabledOnce, StoppedOnce, ExpiredOnce }

InitLevel(disks, cmds, parallel, levels) ==
    /\ now = StartTick
    /\ loaded = FALSE
    /\ heap = [c \in Cells |-> NoItem]
    /\ active_items = 0
    /\ scheduled_callbacks = NoTime
    /\ trigQ = 0
    /\ events = [e \in Evs |-> "free"]
    /\ stop_events = 0
    /\ sess = [s \in SessIds |-> NoSess]
    /\ playback_tasks = 0
    /\ playback_sessions = 0
    /\ tasks = [i \in TaskIds |-> NoTask]
    /\ disk \in disks
    /\ ncmd = 0
    /\ budget = cmds
    /\ par = parallel
    /\ NoVolume
    /\ volume_level \in levels
    /\ last = NoStep

InitWith(disks, cmds, parallel) == InitLevel(disks, cmds, parallel, {NoTime})

Init == InitWith(InitDisk, MaxCmds, 1)

\* async_load_items: an active item gets a stop event and a playback task, a
\* scheduled one is normalised forward and armed.
async_load_items ==
    /\ ~loaded
    /\ loaded' = TRUE
    /\ StepAt("load_done", NoItem, now, 0)
    /\ UNCHANGED <<now, disk, ncmd, par, budget, volvars, playback_sessions>>
    /\ IF disk = NoItem
       THEN UNCHANGED <<heap, active_items, scheduled_callbacks, trigQ, events,
                        stop_events, sess, playback_tasks, tasks>>
       ELSE IF disk.status = "active"
       THEN /\ Commit([heap EXCEPT ![1] = disk], 1, tasks,
                      [events EXCEPT ![1] = "clear"], 1,
                      [sess EXCEPT ![1] = [NoSess EXCEPT !.st = "created"]])
            /\ playback_tasks' = 1
            /\ UNCHANGED <<scheduled_callbacks, trigQ>>
       ELSE IF disk.status = "scheduled"
       THEN LET adjusted == ensure_future_schedule_time(
                                disk.sched, disk.repeat, disk.days, now, FALSE)
                sched == IF adjusted # NoTime THEN adjusted ELSE disk.sched
            IN /\ Commit([heap EXCEPT ![1] = [disk EXCEPT !.sched = sched]], 1, tasks,
                         events, stop_events, sess)
               /\ schedule_trigger(sched)
               /\ UNCHANGED playback_tasks
       ELSE /\ Commit([heap EXCEPT ![1] = disk], 1, tasks, events, stop_events, sess)
            /\ UNCHANGED <<scheduled_callbacks, trigQ, playback_tasks>>

(***************************************************************************)
(* Clock and timer                                                         *)
(***************************************************************************)
Tick ==
    /\ loaded
    /\ now < StartTick + MaxElapsed
    /\ now' = now + 1
    /\ Step("tick", NoItem)
    /\ UNCHANGED <<loaded, par, budget, volvars, heap, active_items, scheduled_callbacks, trigQ, events,
                   stop_events, sess, playback_tasks, playback_sessions, tasks, disk, ncmd>>

\* A timer that queues its trigger and stays registered.
TimerFireStaysArmed ==
    /\ scheduled_callbacks # NoTime
    /\ scheduled_callbacks <= now
    /\ trigQ < MaxTrig
    /\ trigQ' = trigQ + 1
    /\ Step("timer_fire", NoItem)
    /\ UNCHANGED <<now, loaded, par, budget, volvars, heap, active_items, events, stop_events, sess,
                   playback_tasks, playback_sessions, tasks, disk, ncmd, scheduled_callbacks>>

\* _schedule_trigger._handle: the one-shot timer fires, drops its
\* registration and queues the trigger task.
TimerFire ==
    /\ scheduled_callbacks # NoTime
    /\ scheduled_callbacks <= now
    /\ trigQ < MaxTrig
    /\ scheduled_callbacks' = NoTime
    /\ trigQ' = trigQ + 1
    /\ Step("timer_fire", NoItem)
    /\ UNCHANGED <<now, loaded, par, budget, volvars, heap, active_items, events, stop_events, sess,
                   playback_tasks, playback_sessions, tasks, disk, ncmd>>

(***************************************************************************)
(* _trigger_item                                                           *)
(***************************************************************************)
\* First segment, up to the save.
TriggerBegin(i) ==
    /\ trigQ > 0
    /\ tasks[i].kind = "none"
    /\ \A d \in 1 .. i - 1 : tasks[d].kind # "none"
    /\ trigQ' = trigQ - 1
    /\ scheduled_callbacks' = NoTime
    /\ Step("trigger", Cur)
    /\ UNCHANGED <<now, loaded, par, budget, volvars, playback_tasks, playback_sessions, ncmd>>
    /\ IF active_items = 0
       THEN UNCHANGED <<heap, active_items, tasks, events, stop_events, sess, disk>>
       ELSE LET item == heap[active_items]
            IN IF ~item.enabled
               THEN IF item.repeat = "once"
                    THEN LET m == mark_item_expired(heap, active_items, tasks, sess)
                         IN /\ Commit(m.h, m.ai, tasks, events, stop_events, sess)
                            /\ disk' = IF m.saved THEN m.h[m.ai] ELSE disk
                    ELSE LET n == Stored(heap, active_items, tasks, sess,
                                         [item EXCEPT !.status = "disabled"])
                         IN /\ Commit(n.h, n.ai, tasks, events, stop_events, sess)
                            /\ disk' = n.h[n.ai]
               ELSE LET n == Stored(heap, active_items, tasks, sess,
                                    [item EXCEPT !.status = "active"])
                    IN /\ Commit(n.h, n.ai,
                                 [tasks EXCEPT ![i] = [NoTask EXCEPT !.kind = "trigger",
                                                                     !.pc = "trig_saved"]],
                                 events, stop_events, sess)
                       /\ disk' = n.h[n.ai]

\* After the save: a fresh stop event and the playback task, both recorded.
TriggerSaved(i) ==
    /\ tasks[i].pc = "trig_saved"
    /\ HasFreeSess
    /\ LET e == FreeEv(stop_events, sess)
           s == FreeSess
       IN /\ Commit(heap, active_items, [tasks EXCEPT ![i] = NoTask],
                    [events EXCEPT ![e] = "clear"], e,
                    [sess EXCEPT ![s] = [NoSess EXCEPT !.st = "created"]])
          /\ playback_tasks' = s
    /\ Step("trigger_start_playback", NoItem)
    /\ UNCHANGED <<now, loaded, par, budget, volvars, scheduled_callbacks, trigQ, playback_sessions, disk, ncmd>>

(***************************************************************************)
(* _start_playback and _PlaybackSession.run                                *)
(***************************************************************************)
\* The finally block of _start_playback.  It pops the three table entries of
\* the id whoever owns them; popped_ok says that the popped stop event was
\* missing or set.  When the item is still active and popped_ok holds, it
\* either leaves the state to the stop that flagged the item, or closes the
\* occurrence itself: stopped, or scheduled for the next repeat.
start_playback_finally(s, op, popped_ok) ==
    LET closes == /\ active_items # 0
                  /\ heap[active_items].status = "active"
                  /\ popped_ok
        item == heap[active_items]
    IN /\ playback_tasks' = 0
       /\ playback_sessions' = 0
       /\ Step(op, Cur)
       /\ UNCHANGED <<now, loaded, par, budget, volvars, scheduled_callbacks, trigQ, ncmd>>
       /\ IF ~closes
          THEN /\ Commit(heap, active_items, tasks, events, 0, [sess EXCEPT ![s] = NoSess])
               /\ UNCHANGED disk
          ELSE IF item.msp
          THEN /\ Commit([heap EXCEPT ![active_items].msp = FALSE], active_items, tasks,
                         events, 0, [sess EXCEPT ![s] = NoSess])
               /\ UNCHANGED disk
          ELSE LET next_time ==
                       IF item.enabled /\ item.repeat # "once"
                       THEN ensure_future_schedule_time(item.canon, item.repeat,
                                                        item.days, now, TRUE)
                       ELSE NoTime
                   upd == IF next_time # NoTime
                          THEN [item EXCEPT !.status = "scheduled", !.sched = next_time,
                                            !.canon = next_time]
                          ELSE [item EXCEPT !.status = "stopped"]
                   n == Stored([heap EXCEPT ![active_items] = upd], active_items, tasks,
                               sess, upd)
               IN /\ Commit(n.h, n.ai, tasks, events, 0,
                            [sess EXCEPT ![s] = [NoSess EXCEPT !.st = "saving",
                                                               !.ref = n.ai,
                                                               !.next_time = next_time]])
                  /\ disk' = upd

PoppedOk == stop_events = 0 \/ events[stop_events] = "set"

\* The task's first step.  A task cancelled before it ever ran ends without
\* entering the coroutine.  Otherwise the session takes the recorded stop
\* event (a new one if none), registers itself and enters its loop, or goes
\* straight to the finally block when there is nothing to play.
SessBegin(s) ==
    /\ sess[s].st = "created"
    /\ IF sess[s].cancel
       THEN /\ Commit(heap, active_items, tasks, events, stop_events,
                      [sess EXCEPT ![s] = NoSess])
            /\ Step("playback_never_ran", NoItem)
            /\ UNCHANGED <<now, loaded, par, budget, volvars, scheduled_callbacks, trigQ,
                           playback_tasks, playback_sessions, disk, ncmd>>
       ELSE IF active_items = 0
       THEN start_playback_finally(s, "playback_no_item", PoppedOk)
       ELSE LET e == IF stop_events # 0 THEN stop_events ELSE FreeEv(stop_events, sess)
                ev1 == IF stop_events # 0 THEN events ELSE [events EXCEPT ![e] = "clear"]
            IN IF ev1[e] = "set" \/ ~heap[active_items].enabled
               THEN start_playback_finally(s, "playback_no_cycle", ev1[e] = "set")
               ELSE /\ Commit(heap, active_items, tasks, ev1, e,
                              [sess EXCEPT ![s] = [@ EXCEPT !.st = "running", !.ev = e]])
                    /\ playback_sessions' = s
                    /\ Step("playback_run", NoItem)
                    /\ UNCHANGED <<now, loaded, par, budget, volvars, scheduled_callbacks,
                                   trigQ, playback_tasks, disk, ncmd>>

\* A cycle returns and the loop ends: the stop event is set, or the item is
\* gone or disabled.
SessLoopExit(s) ==
    /\ sess[s].st = "running"
    /\ ~sess[s].cancel
    /\ IF active_items = 0 THEN TRUE
       ELSE events[sess[s].ev] = "set" \/ ~heap[active_items].enabled
    /\ start_playback_finally(s, "playback_loop_exit", PoppedOk)

\* CancelledError reaches the running task.
SessCancelled(s) ==
    /\ sess[s].st = "running"
    /\ sess[s].cancel
    /\ start_playback_finally(s, "playback_cancelled", PoppedOk)

\* The finally block after its save: arm the next occurrence.
SessSaved(s) ==
    /\ sess[s].st = "saving"
    /\ IF sess[s].next_time # NoTime
       THEN schedule_trigger(heap[sess[s].ref].sched)
       ELSE UNCHANGED <<scheduled_callbacks, trigQ>>
    /\ Commit(heap, active_items, tasks, events, stop_events, [sess EXCEPT ![s] = NoSess])
    /\ Step("playback_rearmed", NoItem)
    /\ UNCHANGED <<now, loaded, par, budget, volvars, playback_tasks, playback_sessions, disk, ncmd>>

\* Where play_on_media_player is suspended in a cycle: before the
\* announcement, in the announce call, in the bounded wait for the
\* announcement to start, in the poll for its end, in the stop of the player
\* before the sound, and in the sound.
CycleStates == {"cycle", "tts_call", "tts_wait", "tts_playing", "pre_sound_stop",
                "sound_call"}

\* _media_service_listener: somebody else calls media_stop, turn_off or
\* media_pause on the player.
ExternalMediaStop(s) ==
    /\ sess[s].st \in {"running"} \cup CycleStates
    /\ events[sess[s].ev] = "clear"
    /\ Commit(heap, active_items, tasks, SetEv(events, sess[s].ev), stop_events, sess)
    /\ Step("external_media_stop", NoItem)
    /\ UNCHANGED <<now, loaded, par, budget, volvars, scheduled_callbacks, trigQ,
                   playback_tasks, playback_sessions, disk, ncmd>>

\* _handle_media_state_change classifies a transition as a manual stop: it
\* queues stop_item and sets the stop event.
ManualStopDetected(s, i) ==
    /\ sess[s].st = "running"
    /\ events[sess[s].ev] = "clear"
    /\ tasks[i].kind = "none"
    /\ \A d \in 1 .. i - 1 : tasks[d].kind # "none"
    /\ Commit(heap, active_items,
              [tasks EXCEPT ![i] = [NoTask EXCEPT !.kind = "auto_stop", !.pc = "stop_queued",
                                                  !.reason = "stopped"]],
              SetEv(events, sess[s].ev), stop_events, sess)
    /\ Step("manual_stop_detected", NoItem)
    /\ UNCHANGED <<now, loaded, par, budget, volvars, scheduled_callbacks, trigQ, playback_tasks,
                   playback_sessions, disk, ncmd>>

\* What the player may report as media_position and media_duration of its
\* playing state, in seconds.
MediaPositions == {0, 2, 170}
MediaDurations == {180}

\* _infer_manual_stop_from_state for an old state that is playing: more of
\* the track remains than max(3 s, 15 % of its duration).
infer_manual_stop_from_state(position, duration) ==
    /\ duration > 0
    /\ position > 0
    /\ duration - position > 3
    /\ 100 * (duration - position) > 15 * duration

\* _handle_media_state_change for a playing state that answers the session's
\* media request: playback has started.
MediaPlayingReported(s, position, duration) ==
    /\ sess[s].st = "running"
    /\ events[sess[s].ev] = "clear"
    /\ ~sess[s].media_started
    /\ Commit(heap, active_items, tasks, events, stop_events,
              [sess EXCEPT ![s] = [@ EXCEPT !.media_started = TRUE,
                                            !.position = position,
                                            !.duration = duration]])
    /\ Step("media_playing", NoItem)
    /\ UNCHANGED <<now, loaded, par, budget, volvars, scheduled_callbacks, trigQ, playback_tasks,
                   playback_sessions, disk, ncmd>>

\* _handle_media_state_change for an idle state after playback has started,
\* with no idle reason and no user in its context: a manual stop by the
\* position heuristic queues stop_item and sets the stop event, anything else
\* is the natural end of the sound.
MediaIdleReported(s, i) ==
    /\ sess[s].st = "running"
    /\ events[sess[s].ev] = "clear"
    /\ sess[s].media_started
    /\ tasks[i].kind = "none"
    /\ \A d \in 1 .. i - 1 : tasks[d].kind # "none"
    /\ LET quiet == [sess EXCEPT ![s] = [@ EXCEPT !.media_started = FALSE,
                                                  !.position = 0, !.duration = 0]]
       IN IF infer_manual_stop_from_state(sess[s].position, sess[s].duration)
          THEN /\ Commit(heap, active_items,
                         [tasks EXCEPT ![i] = [NoTask EXCEPT !.kind = "auto_stop",
                                                             !.pc = "stop_queued",
                                                             !.reason = "position_delta"]],
                         SetEv(events, sess[s].ev), stop_events, quiet)
               /\ Step("manual_stop_detected", NoItem)
          ELSE /\ Commit(heap, active_items, tasks, events, stop_events, quiet)
               /\ Step("natural_completion", NoItem)
    /\ UNCHANGED <<now, loaded, par, budget, volvars, scheduled_callbacks, trigQ, playback_tasks,
                   playback_sessions, disk, ncmd>>

\* The families of players the profile tells apart.
PlayerFamilies == {"home_assistant", "music_assistant", "spotify"}

\* _handle_media_state_change for a paused state while the announcement
\* plays and before the sound has started, with no idle reason and no user
\* in its context: a manual stop (paused_tts_no_context).  For a Music
\* Assistant player _schedule_music_assistant_tts_stop queues a stop_item of
\* its own; then the one-shot dispatch queues stop_item and the stop event is
\* set.
TtsPauseReported(s, family) ==
    /\ sess[s].st = "running"
    /\ events[sess[s].ev] = "clear"
    /\ ~sess[s].media_started
    /\ \A i \in TaskIds : tasks[i].kind = "none"
    /\ Commit(heap, active_items,
              [i \in TaskIds |->
                  IF i = 1
                  THEN [NoTask EXCEPT !.kind = "auto_stop", !.pc = "stop_queued",
                                      !.reason = "paused_tts_no_context"]
                  ELSE IF i = 2 /\ family = "music_assistant"
                  THEN [NoTask EXCEPT !.kind = "auto_stop", !.pc = "stop_queued",
                                      !.reason = "stopped"]
                  ELSE tasks[i]],
              SetEv(events, sess[s].ev), stop_events, sess)
    /\ Step("manual_stop_detected", NoItem)
    /\ UNCHANGED <<now, loaded, par, budget, volvars, scheduled_callbacks, trigQ,
                   playback_tasks, playback_sessions, disk, ncmd>>

(***************************************************************************)
(* stop_item                                                               *)
(***************************************************************************)
FreeTask == CHOOSE i \in TaskIds : tasks[i].kind = "none"
                                   /\ \A d \in 1 .. i - 1 : tasks[d].kind # "none"
HasFreeTask == \E i \in TaskIds : tasks[i].kind = "none"

\* Coroutines of service calls, as opposed to those the integration starts.
CmdKinds == {"stop", "snooze", "delete", "edit", "reschedule", "enable", "schedule"}
InFlight == Cardinality({i \in TaskIds : tasks[i].kind \in CmdKinds})

\* A service call may begin in coroutine slot i.
CanIssue(i) ==
    /\ loaded /\ ncmd < budget
    /\ HasFreeTask /\ i = FreeTask
    /\ InFlight < par

\* First segment of stop_item for the item in cell r of heap h (the stored
\* dict, or the one just restored from storage): cancel the timer, pop and
\* set the stop event, pop the playback task; flag the item, cancel the task
\* and await it when there is one, else pop the session, set its event and
\* go on to the device.
stop_item_first(i, kind, reason, minutes, h, r) ==
    LET item == h[r]
        t == [NoTask EXCEPT !.kind = kind, !.reason = reason, !.minutes = minutes,
                            !.ref = r, !.was_active = (item.status = "active"),
                            !.pre = item]
        ev1 == SetEv(events, stop_events)
        pt == playback_tasks
        ps == playback_sessions
    IN /\ scheduled_callbacks' = NoTime
       /\ playback_tasks' = 0
       /\ UNCHANGED <<now, loaded, par, budget, volvars, trigQ, disk>>
       /\ IF pt # 0
          THEN /\ Commit([h EXCEPT ![r].msp = TRUE], r,
                         [tasks EXCEPT ![i] = [t EXCEPT !.pc = "stop_await_task",
                                                        !.await = pt]],
                         ev1, 0, [sess EXCEPT ![pt].cancel = TRUE])
               /\ UNCHANGED playback_sessions
          ELSE /\ Commit(h, r, [tasks EXCEPT ![i] = [t EXCEPT !.pc = "stop_io"]],
                         IF ps # 0 THEN SetEv(ev1, sess[ps].ev) ELSE ev1, 0, sess)
               /\ playback_sessions' = 0

\* Entry of stop_item: an id missing from the table is looked up in the
\* storage and restored from there, or the call returns.
stop_item_entry(i, kind, reason, minutes) ==
    IF active_items # 0
    THEN stop_item_first(i, kind, reason, minutes, heap, active_items)
    ELSE IF disk # NoItem
    THEN LET n == Stored(heap, 0, tasks, sess, disk)
         IN stop_item_first(i, kind, reason, minutes, n.h, n.ai)
    ELSE /\ Commit(heap, active_items, [tasks EXCEPT ![i] = NoTask],
                   events, stop_events, sess)
         /\ UNCHANGED <<now, loaded, par, budget, volvars, scheduled_callbacks, trigQ, playback_tasks,
                        playback_sessions, disk>>

\* The id is neither in the table nor in the storage.
UnknownId == active_items = 0 /\ disk = NoItem

\* The stop command.
StopBegin(i) ==
    /\ CanIssue(i)
    /\ ncmd' = ncmd + 1
    /\ Step(IF UnknownId THEN "stop_ignored" ELSE "stop", Cur)
    /\ stop_item_entry(i, "stop", "stopped", 0)

\* The stop_item task queued by the session begins.
StopQueuedBegin(i) ==
    /\ tasks[i].pc = "stop_queued"
    /\ Step("stop_queued_begin", Cur)
    /\ UNCHANGED ncmd
    /\ stop_item_entry(i, "auto_stop", tasks[i].reason, 0)

\* The awaited playback task is done: drop the flag, pop the session and set
\* its event, go on to the device.
StopAfterTask(i) ==
    LET t == tasks[i]
        ps == playback_sessions
    IN /\ t.pc = "stop_await_task"
       /\ sess[t.await].st = "none"
       /\ Commit([heap EXCEPT ![t.ref].msp = FALSE], active_items,
                 [tasks EXCEPT ![i] = [t EXCEPT !.pc = "stop_io", !.await = 0]],
                 IF ps # 0 THEN SetEv(events, sess[ps].ev) ELSE events, stop_events, sess)
       /\ playback_sessions' = 0
       /\ Step("stop_after_task", NoItem)
       /\ UNCHANGED <<now, loaded, par, budget, volvars, scheduled_callbacks, trigQ, playback_tasks, disk, ncmd>>

\* stop_item without the branch that reschedules an item that was ringing.
stop_next_time_no_reschedule(item, was_active, reason) ==
    IF item.repeat # "once" /\ ~was_active /\ reason # "deleted"
    THEN ensure_future_schedule_time(item.canon, item.repeat, item.days, item.canon, TRUE)
    ELSE NoTime

\* The next occurrence computed from the scheduled instant in place of the
\* anchor.
stop_next_time_from_sched(item, was_active, reason) ==
    LET skipped ==
            IF item.repeat # "once" /\ ~was_active /\ reason # "deleted"
            THEN ensure_future_schedule_time(item.sched, item.repeat, item.days,
                                             item.sched, TRUE)
            ELSE NoTime
        should_reschedule ==
            /\ was_active /\ item.enabled /\ item.repeat # "once"
            /\ reason \notin {"snoozed", "deleted"}
    IN IF skipped = NoTime /\ should_reschedule
       THEN ensure_future_schedule_time(item.sched, item.repeat, item.days, now, TRUE)
       ELSE skipped

\* The next occurrence stop_item schedules for a repeating item, NoTime when
\* it schedules none.  A stop of an item that was not ringing skips the
\* pending occurrence: the next one is taken after the canonical anchor.  A
\* stop of a ringing, enabled item takes the next one after now, unless the
\* stop is part of a snooze or a delete.
stop_next_time(item, was_active, reason) ==
    LET skipped ==
            IF item.repeat # "once" /\ ~was_active /\ reason # "deleted"
            THEN ensure_future_schedule_time(item.canon, item.repeat, item.days,
                                             item.canon, TRUE)
            ELSE NoTime
        should_reschedule ==
            /\ was_active /\ item.enabled /\ item.repeat # "once"
            /\ reason \notin {"snoozed", "deleted"}
    IN IF skipped = NoTime /\ should_reschedule
       THEN ensure_future_schedule_time(item.canon, item.repeat, item.days, now, TRUE)
       ELSE skipped

\* After the device stop and the volume restore: decide the outcome on the
\* dict the call holds, store a normalised copy and save.
StopDecide(i) ==
    LET t == tasks[i]
        r == t.ref
        item == heap[r]
        base == [item EXCEPT !.status = "stopped"]
    IN /\ t.pc = "stop_io"
       /\ Step("stop_decide", NoItem)
       /\ UNCHANGED <<now, loaded, par, budget, volvars, scheduled_callbacks, trigQ, playback_tasks,
                      playback_sessions, ncmd>>
       /\ IF item.repeat = "once" /\ t.reason # "snoozed"
          THEN LET m == mark_item_expired([heap EXCEPT ![r] = base], r, tasks, sess)
               IN /\ Commit(m.h, m.ai,
                            [tasks EXCEPT ![i] = [t EXCEPT !.pc = "stop_saved", !.ref = 0,
                                                           !.next_time = NoTime,
                                                           !.at = now]],
                            events, stop_events, sess)
                  /\ disk' = m.h[m.ai]
          ELSE LET next_time == stop_next_time(item, t.was_active, t.reason)
                   upd == IF next_time # NoTime
                          THEN [base EXCEPT !.status = "scheduled", !.sched = next_time,
                                            !.canon = next_time]
                          ELSE base
                   n == Stored([heap EXCEPT ![r] = upd], active_items, tasks, sess, upd)
               IN /\ Commit(n.h, n.ai,
                            [tasks EXCEPT ![i] = [t EXCEPT !.pc = "stop_saved",
                                                           !.ref = n.ai,
                                                           !.next_time = next_time,
                                                           !.at = now]],
                            events, stop_events, sess)
                  /\ disk' = upd

\* After the save: arm the next occurrence if there is one, and return.
\* snooze_item goes on to its wait; delete_item removes the id from the
\* storage and, when the storage had it, resumes once more to pop it from
\* the table.
StopSaved(i) ==
    LET t == tasks[i]
    IN /\ t.pc = "stop_saved"
       /\ IF t.next_time # NoTime
          THEN schedule_trigger(heap[t.ref].sched)
          ELSE UNCHANGED <<scheduled_callbacks, trigQ>>
       /\ UNCHANGED <<now, loaded, par, budget, volvars, playback_tasks, playback_sessions, ncmd>>
       /\ CASE t.kind = "snooze" ->
                 /\ Commit(heap, active_items,
                           [tasks EXCEPT ![i] = [t EXCEPT !.pc = "snz_sleep", !.ref = 0]],
                           events, stop_events, sess)
                 /\ Step("stop_returned", NoItem)
                 /\ UNCHANGED disk
            [] t.kind = "delete" /\ disk # NoItem ->
                 /\ Commit(heap, active_items,
                           [tasks EXCEPT ![i] = [t EXCEPT !.pc = "del_pop", !.ref = 0]],
                           events, stop_events, sess)
                 /\ Step("stop_returned", NoItem)
                 /\ disk' = NoItem
            [] t.kind = "delete" /\ disk = NoItem ->
                 /\ Commit(heap, 0, [tasks EXCEPT ![i] = NoTask], events, stop_events, sess)
                 /\ StepAt("delete_done", t.pre, t.at, 0)
                 /\ UNCHANGED disk
            [] OTHER ->
                 /\ Commit(heap, active_items, [tasks EXCEPT ![i] = NoTask],
                           events, stop_events, sess)
                 /\ StepAt("stop_done", t.pre, t.at, 0)
                 /\ UNCHANGED disk

(***************************************************************************)
(* snooze_item                                                             *)
(***************************************************************************)
SnoozeMinutes == {1}

\* (now + minutes) with seconds and microseconds cleared.
SnoozeTime(at, minutes) == ((at + minutes * MinuteLen) \div MinuteLen) * MinuteLen

\* Entry of snooze_item: an unknown id returns, otherwise the item is stopped
\* with reason "snoozed".
SnoozeBegin(i, minutes) ==
    /\ CanIssue(i)
    /\ active_items # 0
    /\ ncmd' = ncmd + 1
    /\ Step("snooze", Cur)
    /\ stop_item_entry(i, "snooze", "snoozed", minutes)

\* After the stop and the one-second wait: give up unless the status is
\* "stopped", else write the snooze instant and status=scheduled on the
\* stored dict, store a normalised copy and save.
SnoozeAfterSleep(i) ==
    LET t == tasks[i]
    IN /\ t.pc = "snz_sleep"
       /\ UNCHANGED <<now, loaded, par, budget, volvars, scheduled_callbacks, trigQ, playback_tasks,
                      playback_sessions, ncmd>>
       /\ IF active_items = 0 \/ heap[active_items].status # "stopped"
          THEN /\ Commit(heap, active_items, [tasks EXCEPT ![i] = NoTask],
                         events, stop_events, sess)
               /\ StepAt("snooze_failed", t.pre, now, t.minutes)
               /\ UNCHANGED disk
          ELSE LET new_time == SnoozeTime(now, t.minutes)
                   upd == [heap[active_items] EXCEPT !.sched = new_time,
                                                     !.status = "scheduled"]
                   n == Stored([heap EXCEPT ![active_items] = upd], active_items,
                               tasks, sess, upd)
               IN /\ Commit(n.h, n.ai,
                            [tasks EXCEPT ![i] = [t EXCEPT !.pc = "snz_saved",
                                                           !.next_time = new_time,
                                                           !.at = now]],
                            events, stop_events, sess)
                  /\ Step("snooze_write", NoItem)
                  /\ disk' = upd

\* After the save: arm the timer for the snooze instant.
SnoozeSaved(i) ==
    LET t == tasks[i]
    IN /\ t.pc = "snz_saved"
       /\ schedule_trigger(t.next_time)
       /\ Commit(heap, active_items, [tasks EXCEPT ![i] = NoTask],
                 events, stop_events, sess)
       /\ StepAt("snooze_done", t.pre, t.at, t.minutes)
       /\ UNCHANGED <<now, loaded, par, budget, volvars, playback_tasks, playback_sessions, disk, ncmd>>

(***************************************************************************)
(* delete_item                                                             *)
(***************************************************************************)
\* Entry of delete_item: an unknown id returns, otherwise the item is stopped
\* with reason "deleted".
DeleteBegin(i) ==
    /\ CanIssue(i)
    /\ active_items # 0
    /\ ncmd' = ncmd + 1
    /\ Step("delete", Cur)
    /\ stop_item_entry(i, "delete", "deleted", 0)

\* After storage.async_delete_item: the id leaves the table.  A save that
\* another coroutine requested meanwhile waits for the storage lock and
\* writes the table as it is after the pop, without the id.
DeletePop(i) ==
    LET t == tasks[i]
    IN /\ t.pc = "del_pop"
       /\ Commit(heap, 0, [tasks EXCEPT ![i] = NoTask], events, stop_events, sess)
       /\ Step("delete_done", t.pre)
       /\ disk' = NoItem
       /\ UNCHANGED <<now, loaded, par, budget, volvars, scheduled_callbacks, trigQ, playback_tasks,
                      playback_sessions, ncmd>>

(***************************************************************************)
(* edit_item                                                               *)
(***************************************************************************)
EditChanges ==
    { NoChange,
      Ch(3, NoTime, "keep", "none"),
      Ch(NoTime, Today - 2, "keep", "none"),
      Ch(NoTime, NoTime, "off", "none"),
      Ch(3, NoTime, "keep", "time"),
      Ch(3, NoTime, "keep", "name") }

\* An edit that keeps the current time of day whatever time is asked for.
edit_new_time_keeps_time(current_scheduled, ch) ==
    LET date_input == IF ch.date # NoTime THEN ch.date ELSE DateOf(current_scheduled)
        new_time == Combine(date_input, TimeOfDay(current_scheduled))
    IN IF new_time < now /\ ch.date = NoTime THEN new_time + DayLen ELSE new_time

\* The instant combined from the changes and the current schedule; without an
\* explicit date an instant already past moves to the next day.
edit_new_time(current_scheduled, ch) ==
    LET time_input == IF ch.time # NoTime THEN ch.time ELSE TimeOfDay(current_scheduled)
        date_input == IF ch.date # NoTime THEN ch.date ELSE DateOf(current_scheduled)
        new_time == Combine(date_input, time_input)
    IN IF new_time < now /\ ch.date = NoTime THEN new_time + DayLen ELSE new_time

\* The status an edit or reschedule writes.
new_status(new_enabled, original_status) ==
    IF new_enabled THEN "scheduled"
    ELSE IF original_status \in {"scheduled", "active", "expired"} THEN "disabled"
    ELSE original_status

\* edit_item up to its save.  A rejected value raises before anything is
\* written.  Otherwise the changes are applied to a copy, the copy replaces
\* the stored dict and the armed timer is cancelled.
EditBegin(i, ch) ==
    /\ CanIssue(i)
    /\ active_items # 0
    /\ ncmd' = ncmd + 1
    /\ UNCHANGED <<now, loaded, par, budget, volvars, trigQ, playback_tasks, playback_sessions>>
    /\ IF ch.reject # "none"
       THEN /\ StepAt("edit_rejected", Cur, now, 0)
            /\ UNCHANGED <<heap, active_items, tasks, events, stop_events, sess,
                           scheduled_callbacks, disk>>
       ELSE LET existing == heap[active_items]
                touched == ch.time # NoTime \/ ch.date # NoTime
                sched1 == IF touched THEN edit_new_time(existing.sched, ch)
                          ELSE existing.sched
                enabled == IF ch.enabled = "keep" THEN existing.enabled
                           ELSE ch.enabled = "on"
                adjusted == IF enabled
                            THEN ensure_future_schedule_time(
                                     sched1, existing.repeat, existing.days, now, FALSE)
                            ELSE NoTime
                sched2 == IF adjusted # NoTime THEN adjusted ELSE sched1
                schedule_changed == touched \/ adjusted # NoTime
                upd == [existing EXCEPT
                            !.sched = sched2,
                            !.canon = IF schedule_changed THEN sched2 ELSE @,
                            !.enabled = enabled,
                            !.status = new_status(enabled, existing.status)]
                n == Stored(heap, active_items, tasks, sess, upd)
            IN /\ Commit(n.h, n.ai,
                         [tasks EXCEPT ![i] = [NoTask EXCEPT !.kind = "edit",
                                                             !.pc = "edit_saved",
                                                             !.ref = n.ai,
                                                             !.ch = ch,
                                                             !.new_enabled = enabled,
                                                             !.pre = existing,
                                                             !.at = now]],
                         events, stop_events, sess)
               /\ scheduled_callbacks' = NoTime
               /\ disk' = upd
               /\ Step("edit", NoItem)

\* After the save: an enabled item is armed for its instant.
EditSaved(i) ==
    LET t == tasks[i]
    IN /\ t.pc = "edit_saved"
       /\ IF t.new_enabled
          THEN schedule_trigger(heap[t.ref].sched)
          ELSE UNCHANGED <<scheduled_callbacks, trigQ>>
       /\ Commit(heap, active_items, [tasks EXCEPT ![i] = NoTask],
                 events, stop_events, sess)
       /\ StepAt("edit_done", t.pre, t.at, 0)
       /\ UNCHANGED <<now, loaded, par, budget, volvars, playback_tasks, playback_sessions, disk, ncmd>>

(***************************************************************************)
(* reschedule_item                                                         *)
(***************************************************************************)
RescheduleChanges ==
    { NoChange,
      Ch(0, NoTime, "keep", "none"),
      Ch(NoTime, Today - 2, "keep", "none"),
      Ch(3, NoTime, "keep", "time"),
      Ch(3, NoTime, "keep", "name") }

reschedule_new_time(current_scheduled, ch) ==
    LET time_input == IF ch.time # NoTime THEN ch.time ELSE TimeOfDay(current_scheduled)
        date_input == IF ch.date # NoTime THEN ch.date ELSE DateOf(current_scheduled)
        new_time == Combine(date_input, time_input)
    IN IF new_time < now /\ ch.date = NoTime THEN new_time + DayLen ELSE new_time

\* reschedule_item up to its save, for the dict in cell r of heap h (the
\* stored one, or the one just restored from storage).  The armed timer is
\* cancelled first; the changes are then written on the stored dict itself,
\* so a value rejected half-way leaves behind what was written before it.
reschedule_item_first(i, kind, ch, pre, h, r) ==
    LET item == h[r]
        touched == ch.time # NoTime \/ ch.date # NoTime
        sched1 == IF touched THEN reschedule_new_time(item.sched, ch) ELSE item.sched
        enabled == IF ch.enabled = "keep" THEN item.enabled ELSE ch.enabled = "on"
        adjusted == IF enabled
                    THEN ensure_future_schedule_time(
                             sched1, item.repeat, item.days, now, FALSE)
                    ELSE NoTime
        sched2 == IF adjusted # NoTime THEN adjusted ELSE sched1
        schedule_changed == touched \/ adjusted # NoTime
        upd == [item EXCEPT !.sched = sched2,
                            !.canon = IF schedule_changed THEN sched2 ELSE @,
                            !.enabled = enabled,
                            !.status = new_status(enabled, item.status)]
        e == IF stop_events # 0 THEN stop_events ELSE FreeEv(stop_events, sess)
        ev1 == IF stop_events # 0 THEN events ELSE [events EXCEPT ![e] = "clear"]
        n == Stored([h EXCEPT ![r] = upd], r, tasks, sess, upd)
        rejected_op == IF kind = "enable" THEN "enable_done" ELSE "reschedule_rejected"
    IN /\ scheduled_callbacks' = NoTime
       /\ UNCHANGED <<now, loaded, par, budget, volvars, trigQ, playback_tasks, playback_sessions>>
       /\ CASE ch.reject = "time" ->
                 /\ Commit(h, r, [tasks EXCEPT ![i] = NoTask], events, stop_events, sess)
                 /\ StepAt(rejected_op, pre, now, 0)
                 /\ UNCHANGED disk
            [] ch.reject = "name" ->
                 /\ Commit([h EXCEPT ![r].sched = sched1], r,
                           [tasks EXCEPT ![i] = NoTask], events, stop_events, sess)
                 /\ StepAt(rejected_op, pre, now, 0)
                 /\ UNCHANGED disk
            [] OTHER ->
                 /\ Commit(n.h, n.ai,
                           [tasks EXCEPT ![i] = [NoTask EXCEPT !.kind = kind,
                                                               !.pc = "resch_saved",
                                                               !.ref = n.ai,
                                                               !.new_enabled = enabled,
                                                               !.pre = pre,
                                                               !.at = now]],
                           ev1, e, sess)
                 /\ Step("reschedule", NoItem)
                 /\ disk' = upd

\* Entry of reschedule_item: an id missing from the table is restored from
\* the storage, or the call returns.
reschedule_item_entry(i, kind, ch, pre) ==
    IF active_items # 0
    THEN reschedule_item_first(i, kind, ch, pre, heap, active_items)
    ELSE IF disk # NoItem
    THEN LET n == Stored(heap, 0, tasks, sess, disk)
         IN reschedule_item_first(i, kind, ch, pre, n.h, n.ai)
    ELSE /\ Commit(heap, active_items, [tasks EXCEPT ![i] = NoTask],
                   events, stop_events, sess)
         /\ StepAt(IF kind = "enable" THEN "enable_done" ELSE "reschedule_rejected",
                   pre, now, 0)
         /\ UNCHANGED <<now, loaded, par, budget, volvars, scheduled_callbacks, trigQ, playback_tasks,
                        playback_sessions, disk>>

\* The id is in the table or in the storage.
Known == active_items # 0 \/ disk # NoItem

\* The reschedule command.
RescheduleBegin(i, ch) ==
    /\ CanIssue(i)
    /\ Known
    /\ ncmd' = ncmd + 1
    /\ reschedule_item_entry(i, "reschedule", ch, Cur)

\* After the save: a once item whose instant has passed is expired, any
\* other enabled item is armed.
RescheduleSaved(i) ==
    LET t == tasks[i]
        normalized == heap[t.ref]
        done_op == IF t.kind = "enable" THEN "enable_done" ELSE "reschedule_done"
    IN /\ t.pc = "resch_saved"
       /\ UNCHANGED <<now, loaded, par, budget, volvars, playback_tasks, playback_sessions, ncmd>>
       /\ IF t.new_enabled /\ normalized.repeat = "once" /\ normalized.sched <= now
          THEN LET tk == [tasks EXCEPT ![i] = NoTask]
                   m == mark_item_expired(heap, active_items, tk, sess)
               IN /\ Commit(m.h, m.ai, tk, events, stop_events, sess)
                  /\ disk' = IF m.saved THEN m.h[m.ai] ELSE disk
                  /\ StepAt(IF t.kind = "enable" THEN "enable_done"
                            ELSE "reschedule_expired", t.pre, t.at, 0)
                  /\ UNCHANGED <<scheduled_callbacks, trigQ>>
          ELSE /\ IF t.new_enabled
                  THEN schedule_trigger(normalized.sched)
                  ELSE UNCHANGED <<scheduled_callbacks, trigQ>>
               /\ Commit(heap, active_items, [tasks EXCEPT ![i] = NoTask],
                         events, stop_events, sess)
               /\ StepAt(done_op, t.pre, t.at, 0)
               /\ UNCHANGED disk

(***************************************************************************)
(* schedule_item                                                           *)
(***************************************************************************)
ScheduleTimes == {0, 3}
ScheduleDates == {NoTime, Today - 2}
\* "custom" is asked for without any valid repeat_days.
ScheduleRepeats == {"once", "daily", "custom"}

\* The request as far as the modelled id is concerned: an alarm or a
\* reminder; with a name whose slug is the id, or with none; with a playback
\* target that resolves, or without.
ScheduleRequests ==
    [is_alarm : BOOLEAN, named : BOOLEAN, player : BOOLEAN, repeat : ScheduleRepeats]

\* schedule_item up to its first suspension.  A reminder without a name, or
\* whose slug is an id of the table, is refused.  An alarm is given the id by
\* _unique_name_slug or _get_next_available_id only while the id is free
\* (otherwise the call is about another id).  The instant is combined from the
\* date (today when none is given) and the time and moved forward by the time
\* rules; then the sound descriptor is awaited.
ScheduleBegin(i, time_obj, date_input, req) ==
    /\ CanIssue(i)
    /\ req.is_alarm => active_items = 0
    /\ ncmd' = ncmd + 1
    /\ UNCHANGED <<now, loaded, par, budget, volvars, scheduled_callbacks, trigQ, playback_tasks,
                   playback_sessions, disk>>
    /\ IF ~req.is_alarm /\ (~req.named \/ active_items # 0)
       THEN /\ StepAt("schedule_rejected", Cur, NoTime, 0)
            /\ UNCHANGED <<heap, active_items, tasks, events, stop_events, sess>>
       ELSE LET combined == Combine(IF date_input # NoTime THEN date_input
                                                           ELSE DateOf(now),
                                    time_obj)
                adjusted == ensure_future_schedule_time(combined, req.repeat, {}, now, FALSE)
                scheduled_time == IF adjusted # NoTime THEN adjusted ELSE combined
            IN /\ Commit(heap, active_items,
                         [tasks EXCEPT ![i] = [NoTask EXCEPT !.kind = "schedule",
                                                             !.pc = "sched_prepare",
                                                             !.next_time = scheduled_time,
                                                             !.req = req,
                                                             !.at = now]],
                         events, stop_events, sess)
               /\ Step("schedule", NoItem)

\* After the sound descriptor: without a playback target the call is refused;
\* otherwise the item is built and stored under the id chosen at the
\* beginning, and the table is saved.
ScheduleStore(i) ==
    LET t == tasks[i]
        item == Item("scheduled", TRUE, t.req.repeat, {}, t.next_time, t.next_time)
        n == Stored(heap, active_items, tasks, sess, item)
    IN /\ t.pc = "sched_prepare"
       /\ UNCHANGED <<now, loaded, par, budget, volvars, scheduled_callbacks, trigQ, playback_tasks,
                      playback_sessions, ncmd>>
       /\ IF ~t.req.player
          THEN /\ Commit(heap, active_items, [tasks EXCEPT ![i] = NoTask],
                         events, stop_events, sess)
               /\ StepAt("schedule_rejected", Cur, NoTime, 0)
               /\ UNCHANGED disk
          ELSE /\ Commit(n.h, n.ai,
                         [tasks EXCEPT ![i] = [t EXCEPT !.pc = "sched_saved", !.ref = n.ai]],
                         events, stop_events, sess)
               /\ disk' = item
               /\ Step("schedule", NoItem)

\* After the save: arm the timer.
ScheduleSaved(i) ==
    LET t == tasks[i]
    IN /\ t.pc = "sched_saved"
       /\ schedule_trigger(heap[t.ref].sched)
       /\ Commit(heap, active_items, [tasks EXCEPT ![i] = NoTask],
                 events, stop_events, sess)
       /\ StepAt("schedule_done", NoItem, t.at, 0)
       /\ UNCHANGED <<now, loaded, par, budget, volvars, playback_tasks, playback_sessions, disk, ncmd>>

(***************************************************************************)
(* switch.py: enable                                                       *)
(***************************************************************************)
\* AlarmItemSwitch.async_turn_on up to its save: enabled and
\* status=scheduled are written on the stored dict.
async_turn_on(i) ==
    /\ CanIssue(i)
    /\ active_items # 0
    /\ ncmd' = ncmd + 1
    /\ LET upd == [heap[active_items] EXCEPT !.enabled = TRUE, !.status = "scheduled"]
       IN /\ Commit([heap EXCEPT ![active_items] = upd], active_items,
                    [tasks EXCEPT ![i] = [NoTask EXCEPT !.kind = "enable",
                                                        !.pc = "en_saved",
                                                        !.pre = heap[active_items]]],
                    events, stop_events, sess)
          /\ disk' = upd
    /\ Step("enable", NoItem)
    /\ UNCHANGED <<now, loaded, par, budget, volvars, scheduled_callbacks, trigQ, playback_tasks,
                   playback_sessions>>

\* After the save it calls reschedule_item with no changes.
TurnOnSaved(i) ==
    /\ tasks[i].pc = "en_saved"
    /\ UNCHANGED ncmd
    /\ reschedule_item_entry(i, "enable", NoChange, tasks[i].pre)

(***************************************************************************)
(* switch.py: disable                                                      *)
(***************************************************************************)
\* AlarmItemSwitch.async_turn_off: clears enabled, sets status=disabled and
\* saves; the tasks it then cancels are named trigger_<id>, a name no task
\* of the integration bears, and the timer table is not touched.
async_turn_off ==
    /\ loaded /\ ncmd < budget
    /\ InFlight < par
    /\ active_items # 0
    /\ ncmd' = ncmd + 1
    /\ LET upd == [heap[active_items] EXCEPT !.enabled = FALSE, !.status = "disabled"]
       IN /\ Commit([heap EXCEPT ![active_items] = upd], active_items, tasks,
                    events, stop_events, sess)
          /\ disk' = upd
    /\ StepAt("disable_done", Cur, now, 0)
    /\ UNCHANGED <<now, loaded, par, budget, volvars, scheduled_callbacks, trigQ, playback_tasks,
                   playback_sessions>>

(***************************************************************************)
(* Commands for an id that is not found                                    *)
(***************************************************************************)
\* snooze_item and delete_item look the id up in the table, log a warning
\* and return; edit_item looks it up by id and by name, logs an error and
\* returns.  None of them raises, none looks into the storage.
unknown_id_outcome(cmd) ==
    CASE cmd = "snooze" -> "snooze_ignored"
      [] cmd = "delete" -> "delete_ignored"
      [] cmd = "edit" -> "edit_ignored"

UnknownIdCall(cmd) ==
    /\ loaded /\ ncmd < budget /\ InFlight < par
    /\ UnknownId
    /\ ncmd' = ncmd + 1
    /\ StepAt(unknown_id_outcome(cmd), NoItem, NoTime, 0)
    /\ UNCHANGED <<now, loaded, par, budget, volvars, heap, active_items, scheduled_callbacks, trigQ,
                   events, stop_events, sess, playback_tasks, playback_sessions, tasks, disk>>

(***************************************************************************)
(* Specifications                                                          *)
(***************************************************************************)
\* What the integration does by itself: start-up, the clock, timers,
\* triggers, playback, and the later segments of a stop.
Internal ==
    \/ async_load_items
    \/ Tick
    \/ TimerFire
    \/ \E i \in TaskIds : TriggerBegin(i) \/ TriggerSaved(i)
    \/ \E s \in SessIds : SessBegin(s) \/ SessLoopExit(s) \/ SessCancelled(s) \/ SessSaved(s)
    \/ \E s \in SessIds : ExternalMediaStop(s)
    \/ \E s \in SessIds, i \in TaskIds : ManualStopDetected(s, i)
    \/ \E i \in TaskIds : StopQueuedBegin(i) \/ StopAfterTask(i) \/ StopDecide(i)
                          \/ StopSaved(i)

Snooze ==
    \/ \E i \in TaskIds, m \in SnoozeMinutes : SnoozeBegin(i, m)
    \/ \E i \in TaskIds : SnoozeAfterSleep(i) \/ SnoozeSaved(i)

\* Every service call, one at a time.
Next ==
    \/ Internal
    \/ \E i \in TaskIds : StopBegin(i)
    \/ Snooze
    \/ \E i \in TaskIds : DeleteBegin(i) \/ DeletePop(i)
    \/ \E i \in TaskIds, ch \in EditChanges : EditBegin(i, ch)
    \/ \E i \in TaskIds : EditSaved(i)
    \/ \E i \in TaskIds, ch \in RescheduleChanges : RescheduleBegin(i, ch)
    \/ \E i \in TaskIds : RescheduleSaved(i)
    \/ \E i \in TaskIds : async_turn_on(i) \/ TurnOnSaved(i)
    \/ async_turn_off
    \/ \E i \in TaskIds, tm \in ScheduleTimes, d \in ScheduleDates, req \in ScheduleRequests :
           ScheduleBegin(i, tm, d, req)
    \/ \E i \in TaskIds : ScheduleStore(i) \/ ScheduleSaved(i)
    \/ \E cmd \in {"snooze", "delete", "edit"} : UnknownIdCall(cmd)

Spec == Init /\ [][Next]_vars

\* Spec in which a timer that stays due fires: async_track_point_in_time runs
\* the callback of a registration whose instant has come.
FairSpec == Spec /\ WF_vars(TimerFire)

\* A ringing repeating item, and service calls that are stop or snooze only,
\* one after the other.
InitSnooze == InitWith({ActiveDaily, ActiveWeekends}, MaxSeqCmds, 1)
NextSnooze ==
    \/ Internal
    \/ \E i \in TaskIds : StopBegin(i)
    \/ Snooze
SpecSnooze == InitSnooze /\ [][NextSnooze]_vars

\* A ringing repeating item that is stopped, and stopped again while the
\* first stop is suspended.
InitRace == InitWith({ActiveDaily, ActiveWeekends}, MaxSeqCmds, MaxSeqCmds)
StopRinging(i) ==
    /\ ncmd = 0
    /\ Cur.status = "active"
    /\ StopBegin(i)
StopDuringStop(i) ==
    /\ ncmd > 0
    /\ InFlight > 0
    /\ StopBegin(i)
NextRace ==
    \/ async_load_items
    \/ Tick
    \/ \E s \in SessIds : SessBegin(s) \/ SessLoopExit(s) \/ SessCancelled(s) \/ SessSaved(s)
    \/ \E s \in SessIds : ExternalMediaStop(s)
    \/ \E i \in TaskIds : StopRinging(i) \/ StopDuringStop(i)
    \/ \E i \in TaskIds : StopAfterTask(i) \/ StopDecide(i) \/ StopSaved(i)
SpecRace == InitRace /\ [][NextRace]_vars

\* A ringing repeating item that is snoozed, and snoozed again while the
\* first snooze is suspended in its stop or in its one-second wait.
InitSnoozeRace == InitWith({ActiveDaily, ActiveWeekends}, MaxSeqCmds, MaxSeqCmds)
SnoozeRinging(i, minutes) ==
    /\ ncmd = 0
    /\ Cur.status = "active"
    /\ SnoozeBegin(i, minutes)
SnoozeDuringSnooze(i, minutes) ==
    /\ ncmd > 0
    /\ \E j \in TaskIds : tasks[j].kind = "snooze"
                          /\ tasks[j].pc \in {"stop_await_task", "stop_io", "stop_saved",
                                               "snz_sleep"}
    /\ SnoozeBegin(i, minutes)
NextSnoozeRace ==
    \/ async_load_items
    \/ Tick
    \/ \E s \in SessIds : SessBegin(s) \/ SessCancelled(s)
    \/ \E i \in TaskIds, m \in SnoozeMinutes : SnoozeRinging(i, m) \/ SnoozeDuringSnooze(i, m)
    \/ \E i \in TaskIds : StopAfterTask(i) \/ StopDecide(i) \/ StopSaved(i)
    \/ \E i \in TaskIds : SnoozeAfterSleep(i) \/ SnoozeSaved(i)
SpecSnoozeRace == InitSnoozeRace /\ [][NextSnoozeRace]_vars

\* An empty table, and two schedule calls for the same free id, the second
\* begun while the first is suspended before it has stored its item.
InitScheduleRace == InitWith({NoItem}, MaxSeqCmds, MaxSeqCmds)
ScheduleFirst(i, time_obj, date_input, req) ==
    /\ ncmd = 0
    /\ ScheduleBegin(i, time_obj, date_input, req)
ScheduleDuringSchedule(i, time_obj, date_input, req) ==
    /\ ncmd > 0
    /\ \E j \in TaskIds : tasks[j].kind = "schedule" /\ tasks[j].pc = "sched_prepare"
    /\ ScheduleBegin(i, time_obj, date_input, req)
NextScheduleRace ==
    \/ async_load_items
    \/ Tick
    \/ TimerFire
    \/ \E i \in TaskIds, tm \in ScheduleTimes, d \in ScheduleDates, req \in ScheduleRequests :
           ScheduleFirst(i, tm, d, req) \/ ScheduleDuringSchedule(i, tm, d, req)
    \/ \E i \in TaskIds : ScheduleStore(i) \/ ScheduleSaved(i)
SpecScheduleRace == InitScheduleRace /\ [][NextScheduleRace]_vars

(***************************************************************************)
(* Properties                                                              *)
(***************************************************************************)
TimerArmed == scheduled_callbacks # NoTime

\* A playback task that exists and has not been cancelled.
Live(s) == sess[s].st \in {"created", "running"} /\ ~sess[s].cancel
LiveSessions == {s \in SessIds : Live(s)}

\* A session inside its playback loop that nobody has asked to stop.
Playing(s) ==
    /\ sess[s].st = "running" /\ ~sess[s].cancel
    /\ events[sess[s].ev] = "clear"

\* No coroutine of the integration is in flight and no trigger is queued.
Quiet == trigQ = 0 /\ \A i \in TaskIds : tasks[i].kind = "none"

CmdDoneOps == DoneOps \ ({"load_done"} \cup IgnoredOps)

\* C1: no state has both an armed timer in the timer table and a playback
\* session that is running for the item.
C1_NoTimerWithSession == ~(TimerArmed /\ \E s \in SessIds : Playing(s))

\* C2: at most one playback task is live at any instant, and a live one is
\* the task recorded in the handle table.
C2_OneLiveSession ==
    /\ Cardinality(LiveSessions) <= 1
    /\ \A s \in LiveSessions : playback_tasks = s

\* C3: when a command has returned and nothing else is in flight, a
\* scheduled item has its timer and no session, and an active item has
\* exactly one session and no timer.
C3_SettledAfterCommand ==
    (last.op \in CmdDoneOps /\ Quiet) =>
        /\ Cur.status = "scheduled" => (TimerArmed /\ LiveSessions = {})
        /\ Cur.status = "active" => (Cardinality(LiveSessions) = 1 /\ ~TimerArmed)

\* C4: an item whose status is stopped, expired or disabled has neither an
\* armed timer nor a running playback session.
C4_TerminalStatusIdle ==
    Cur.status \in {"stopped", "expired", "disabled"} =>
        (~TimerArmed /\ \A s \in SessIds : ~Playing(s))

\* The entry as the table shows it after the step.
CurAfter == IF active_items' = 0 THEN NoItem ELSE heap'[active_items']

\* The registration in the timer table has reached its instant.
DueTimer == TimerArmed /\ scheduled_callbacks <= now

TriggerStepRule ==
    /\ (Cur.status = "scheduled" /\ CurAfter.status = "active") => (trigQ' = trigQ - 1)
    /\ (trigQ' > trigQ) => (trigQ' = trigQ + 1 /\ scheduled_callbacks' = NoTime)

\* C5: a scheduled item becomes active only in the step that takes a queued
\* Trigger; a Trigger is queued once per registration, by the timer that
\* fires or by a registration already due, and that registration is gone
\* thereafter; and a registration that is due, while the task queue has
\* room, does get its Trigger queued unless it is cancelled or replaced.
C5_TriggerDelivery ==
    /\ [][TriggerStepRule]_vars
    /\ (DueTimer /\ trigQ < MaxTrig) ~> ~DueTimer

C5_Delivered ==
    /\ now > StartTick
    /\ Cur.status = "active"
    /\ \E i \in TaskIds : tasks[i].pc = "trig_saved"

\* The instants at which an item recurs: the anchor's time of day on the
\* weekdays its repeat pattern allows.
Occurrence(item, o) ==
    /\ TimeOfDay(o) = TimeOfDay(item.canon)
    /\ LET allowed_days == resolve_repeat_weekdays(item.repeat, item.days)
       IN allowed_days = {} \/ Weekday(o) \in allowed_days

\* C6: when two overlapping stops of a ringing repeating item have both
\* returned, the item is scheduled for the first occurrence after now, as
\* after a single stop: no occurrence lies between now and the new instant.
C6_StopTwiceAdvancesOnce ==
    (ncmd = 2 /\ Quiet /\ last.op = "stop_done") =>
        /\ Cur.status = "scheduled"
        /\ Cur.canon = Cur.sched
        /\ \A o \in now + 1 .. Cur.sched - 1 : ~Occurrence(Cur, o)

\* C7: when schedule, edit, reschedule, enable, stop, snooze or load has
\* returned and left the item scheduled, the instant it is scheduled for is
\* not before the moment the command wrote it.
C7_ScheduledNotInPast ==
    (last.op \in DoneOps /\ Cur.status = "scheduled" /\ last.at # NoTime) =>
        Cur.sched >= last.at

\* C8: when snooze returns, the canonical anchor of the item is what it was
\* when snooze was called.
C8_SnoozeKeepsAnchor ==
    last.op \in {"snooze_done", "snooze_failed"} => Cur.canon = last.pre.canon

\* The item was snoozed: it is scheduled for, or rang at, an instant other
\* than its anchor.
Snoozed(item) ==
    /\ item.status \in {"scheduled", "active"}
    /\ item.repeat # "once"
    /\ item.sched # item.canon

\* What coroutine i writes in the step in which its stop_item decides.
StopWrites(i) ==
    /\ tasks[i].pc = "stop_io"
    /\ tasks'[i].pc = "stop_saved"
    /\ tasks[i].kind \in {"stop", "auto_stop"}

\* C9: a stop of a repeating item that was snoozed when the stop began
\* schedules a later occurrence of the anchor the item had then: the
\* anchor's time of day on an allowed weekday, and that instant becomes the
\* anchor.
C9_StopAfterSnoozeUsesAnchor ==
    [][\A i \in TaskIds :
          (StopWrites(i) /\ Snoozed(tasks[i].pre)) =>
              LET written == heap'[tasks'[i].ref]
              IN /\ written.status = "scheduled"
                 /\ Occurrence(tasks[i].pre, written.sched)
                 /\ written.sched > tasks[i].pre.canon
                 /\ written.canon = written.sched]_vars

C9_StoppedAfterSnoozeRang ==
    /\ last.op = "stop_done"
    /\ last.pre.status = "active"
    /\ last.pre.repeat # "once"
    /\ last.pre.sched # last.pre.canon
    /\ TimeOfDay(last.pre.sched) # TimeOfDay(last.pre.canon)

\* now + minutes with the seconds cleared.
TruncatedToMinute(t) == t - (t % MinuteLen)

\* C10: when snooze returns for an item that was active or scheduled, the
\* item is scheduled for now + minutes truncated to the minute, one timer is
\* armed for that instant and no session runs.
C10_SnoozeOutcome ==
    (last.op \in {"snooze_done", "snooze_failed"}
        /\ last.pre.status \in {"active", "scheduled"}) =>
        /\ Cur.status = "scheduled"
        /\ Cur.sched = TruncatedToMinute(last.at + last.minutes * MinuteLen)
        /\ scheduled_callbacks = Cur.sched
        /\ LiveSessions = {}

\* No coroutine of a command or of a trigger is in flight.
NoTaskInFlight == \A i \in TaskIds : tasks[i].kind = "none"

\* An instant a snooze begun since start-up may have written.
SnoozedInstant(t) ==
    \E at \in StartTick .. now, m \in SnoozeMinutes : t = SnoozeTime(at, m)

\* C11: when two overlapping snoozes of a ringing repeating item have both
\* returned, the item is scheduled for a snoozed instant, that instant is
\* armed (or, already due, its trigger is queued), and the canonical anchor
\* is what it was when the snooze began.
C11_OverlappingSnoozes ==
    (ncmd = 2 /\ NoTaskInFlight /\ last.op \in {"snooze_done", "snooze_failed"}) =>
        /\ Cur.status = "scheduled"
        /\ SnoozedInstant(Cur.sched)
        /\ scheduled_callbacks = Cur.sched \/ (trigQ > 0 /\ Cur.sched <= now)
        /\ Cur.canon = last.pre.canon

\* A step in which an edit, a reschedule or an enable begins.
ExplicitChangeBegins ==
    \E i \in TaskIds : /\ tasks[i].kind = "none"
                       /\ tasks'[i].kind \in {"edit", "reschedule", "enable"}

\* The item is expired, no timer is armed for it and no playback task is
\* left.
ExpiredAndIdle ==
    /\ Cur.status = "expired"
    /\ ~TimerArmed
    /\ LiveSessions = {}

\* C12: when a stop of a once item that was active or scheduled returns, the
\* item is expired with no timer and no session; and an expired item that
\* stays in the table leaves that status only in a step in which an edit, a
\* reschedule or an enable begins (or in which the switch is turned off).
C12_OnceStopExpires ==
    /\ []((last.op = "stop_done" /\ last.pre.repeat = "once"
             /\ last.pre.status \in {"active", "scheduled"}) => ExpiredAndIdle)
    /\ [][(Cur.status = "expired" /\ CurAfter # NoItem /\ CurAfter.status # "expired")
             => (ExplicitChangeBegins \/ last'.op = "disable_done")]_vars

\* Coroutine i runs a stop (not part of a snooze or a delete) of a repeating
\* item that was ringing when the stop began.
StopsRinging(i) ==
    /\ tasks[i].kind \in {"stop", "auto_stop"}
    /\ tasks[i].pre # NoItem
    /\ tasks[i].pre.status = "active"
    /\ tasks[i].pre.repeat # "once"

\* The step in which the stop_item of coroutine i returns.
StopReturns(i) == tasks[i].pc = "stop_saved" /\ tasks'[i].kind = "none"

NextOccurrenceAfter(item, t, o) ==
    /\ o > t
    /\ Occurrence(item, o)
    /\ \A x \in t + 1 .. o - 1 : ~Occurrence(item, x)

\* Coroutine i runs a stop (not part of a snooze or a delete) of a repeating
\* item that was scheduled, not ringing, when the stop began.
StopsPending(i) ==
    /\ tasks[i].kind \in {"stop", "auto_stop"}
    /\ tasks[i].pre # NoItem
    /\ tasks[i].pre.status = "scheduled"
    /\ tasks[i].pre.repeat # "once"

\* C14: a stop of a repeating item that was scheduled and not ringing
\* leaves it scheduled for the first occurrence after its anchor, which is
\* later than the pending instant it skips, and when it returns it has
\* armed the timer for that instant without queuing a trigger (the trigger
\* is what sets last_triggered).
C14_StopSkipsPending ==
    [][\A i \in TaskIds :
          /\ (StopWrites(i) /\ StopsPending(i)) =>
                 LET written == heap'[tasks'[i].ref]
                 IN /\ written.status = "scheduled"
                    /\ NextOccurrenceAfter(tasks[i].pre, tasks[i].pre.canon, written.sched)
                    /\ written.sched > tasks[i].pre.sched
          /\ (StopReturns(i) /\ StopsPending(i)) =>
                 /\ scheduled_callbacks' = heap[tasks[i].ref].sched
                 /\ trigQ' = trigQ]_vars

\* After the step, coroutine slot i holds a snooze, or a stop_item that has
\* yet to decide what becomes of the item.
WillSettle(i) ==
    \/ tasks'[i].kind = "snooze"
    \/ tasks'[i].pc \in {"stop_queued", "stop_await_task", "stop_io"}

\* C15: a step that takes an item from active to stopped leaves a snooze
\* pending or a stop_item still to decide: nothing else moves an item out of
\* stopped, so without one of them the item would remain stopped.
C15_StoppedIsTransient ==
    [][(Cur.status = "active" /\ CurAfter.status = "stopped")
          => \E i \in TaskIds : WillSettle(i)]_vars

\* The id is in neither store, no timer is armed for it and no playback
\* session of it is running.
Gone ==
    /\ active_items = 0
    /\ disk = NoItem
    /\ ~TimerArmed
    /\ \A s \in SessIds : ~Playing(s)

\* C16: when delete returns for an item that was in the table, the id is
\* gone from the table and from the storage, no timer is armed and no
\* playback session is running; and taking a queued trigger while the id is absent
\* changes nothing but the queue.
C16_DeleteRemoves ==
    /\ []((last.op = "delete_done" /\ last.pre # NoItem) => Gone)
    /\ [][(active_items = 0 /\ trigQ' < trigQ) =>
             UNCHANGED <<heap, active_items, scheduled_callbacks, events, stop_events,
                         sess, playback_tasks, playback_sessions, tasks, disk>>]_vars

\* C17: when the switch's turn-off returns, no timer is armed for the item; an
\* item that was not ringing is disabled with its scheduled time untouched,
\* and an item that was ringing has not been given the status disabled.
C17_DisableCancelsTimer ==
    (last.op = "disable_done" /\ last.pre # NoItem) =>
        /\ ~TimerArmed
        /\ last.pre.status # "active" =>
               (Cur.status = "disabled" /\ Cur.sched = last.pre.sched)
        /\ last.pre.status = "active" => Cur.status # "disabled"

\* C18: when the switch's turn-on returns for an item that was disabled, the
\* item is enabled and scheduled at an instant of its repeat pattern later
\* than the moment the rescheduling began, and that instant is the one
\* registered timer (or, the instant having come meanwhile, its trigger is
\* queued).
C18_EnableSchedules ==
    (last.op = "enable_done" /\ last.pre # NoItem /\ last.pre.status = "disabled") =>
        /\ Cur # NoItem
        /\ Cur.enabled
        /\ Cur.status = "scheduled"
        /\ Cur.sched > last.at
        /\ Occurrence(last.pre, Cur.sched)
        /\ \/ scheduled_callbacks = Cur.sched
           \/ (trigQ > 0 /\ Cur.sched <= now)

\* _trigger_item is taken from the queue for an item that is stored with
\* enabled = false.
TriggersDisabled == trigQ' < trigQ /\ Cur # NoItem /\ ~Cur.enabled

\* C19: a trigger taken for an absent id changes nothing but the queue; a
\* trigger taken for a stored item with enabled = false starts no session and
\* no playback task and leaves the item not active: expired if it is a once
\* item, disabled with scheduled time and anchor untouched otherwise.
C19_TriggerAbsentOrDisabled ==
    [][/\ (trigQ' < trigQ /\ active_items = 0) =>
              UNCHANGED <<heap, active_items, disk, scheduled_callbacks, events,
                          stop_events, sess, playback_tasks, playback_sessions, tasks>>
       /\ TriggersDisabled =>
              /\ CurAfter # NoItem
              /\ CurAfter.status # "active"
              /\ UNCHANGED <<playback_tasks, playback_sessions, events, stop_events>>
              /\ \A s \in SessIds : sess'[s].st = sess[s].st
              /\ \A i \in TaskIds : tasks'[i].kind = tasks[i].kind
              /\ Cur.repeat = "once" => CurAfter.status = "expired"
              /\ Cur.repeat # "once" =>
                     /\ CurAfter.status = "disabled"
                     /\ CurAfter.sched = Cur.sched
                     /\ CurAfter.canon = Cur.canon]_vars

\* A schedule call ends refused in this step.
ScheduleRefused == last'.op = "schedule_rejected"

\* Coroutine i of schedule_item stores its item in this step.
ScheduleStores(i) == tasks[i].pc = "sched_prepare" /\ tasks'[i].pc = "sched_saved"

\* C20: the step in which a schedule call is refused changes neither the
\* table, the storage nor the timers; a reminder without a name, a reminder
\* named like a stored id and a request without playback target store
\* nothing; and the step in which a schedule call stores its item finds the
\* id absent from the table.
C20_ScheduleRefusalsAndFreshId ==
    [][/\ ScheduleRefused =>
              UNCHANGED <<heap, active_items, disk, scheduled_callbacks, trigQ, events,
                          stop_events, sess, playback_tasks, playback_sessions>>
       /\ \A i \in TaskIds :
              ScheduleStores(i) =>
                 /\ tasks[i].req.player
                 /\ tasks[i].req.is_alarm \/ tasks[i].req.named
                 /\ active_items = 0]_vars

\* Coroutine i of schedule_item asks for repeat=custom; the requests of the
\* model carry no repeat_days.
CustomWithoutDays(i) == tasks[i].kind = "schedule" /\ tasks[i].req.repeat = "custom"

\* C21: a schedule call with repeat=custom and no valid repeat_days stores no
\* item and arms no timer: it ends refused.
C21_CustomWithoutDaysRefused ==
    [][\A i \in TaskIds :
          CustomWithoutDays(i) =>
              /\ ~ScheduleStores(i)
              /\ tasks'[i].kind = "none" =>
                     /\ last'.op = "schedule_rejected"
                     /\ UNCHANGED <<scheduled_callbacks, trigQ>>]_vars

\* An edit call is refused in this step.
EditRefused == last'.op = "edit_rejected"

\* Coroutine i begins an edit in this step and replaces the stored item.
EditStores(i) == tasks[i].kind = "none" /\ tasks'[i].kind = "edit"

\* C22: the step in which an edit is refused leaves the stored item, the
\* storage and the timer as they were; the step in which an edit is accepted
\* replaces the stored item by one that carries every requested change at
\* once (time of day, date not earlier than the one asked for and a whole
\* number of days from it, enabled flag with the matching status), and the
\* timer it arms when it returns is for that item's instant.
C22_EditAllOrNothing ==
    [][/\ EditRefused =>
              UNCHANGED <<heap, active_items, disk, scheduled_callbacks, trigQ, events,
                          stop_events, sess, playback_tasks, playback_sessions, tasks>>
       /\ \A i \in TaskIds :
              EditStores(i) =>
                 LET ch == tasks'[i].ch
                     new == CurAfter
                 IN /\ new = heap'[tasks'[i].ref]
                    /\ ch.reject = "none"
                    /\ ch.time # NoTime => TimeOfDay(new.sched) = ch.time
                    /\ ch.time = NoTime => TimeOfDay(new.sched) = TimeOfDay(Cur.sched)
                    /\ ch.date # NoTime =>
                           /\ DateOf(new.sched) >= ch.date
                           /\ new.canon = new.sched
                    /\ ch.enabled = "off" => (~new.enabled /\ new.status # "scheduled")
                    /\ ch.enabled = "keep" => new.enabled = Cur.enabled
                    /\ new.enabled => new.status = "scheduled"
                    /\ new.repeat = Cur.repeat /\ new.days = Cur.days
                    /\ disk' = new]_vars

\* An edit that asked for a new time of day and a still enabled item has
\* returned with the item scheduled at that time of day and its timer armed.
C22_Edited ==
    /\ last.op = "edit_done"
    /\ Cur # NoItem
    /\ Cur.status = "scheduled"
    /\ TimeOfDay(Cur.sched) = 3
    /\ TimeOfDay(last.pre.sched) # 3
    /\ scheduled_callbacks = Cur.sched

\* A reschedule call for a stored item ends refused in this step.
RescheduleRefused == last'.op = "reschedule_rejected" /\ active_items # 0

\* C23: the step in which a reschedule of a stored item is refused leaves
\* the item's fields and its armed timer as they were.
C23_RescheduleRefusalMutatesNothing ==
    [][RescheduleRefused => (CurAfter = Cur /\ UNCHANGED scheduled_callbacks)]_vars

\* A stop, snooze, delete or edit called for an unknown id ends in this step.
UnknownIdHandled == UnknownId /\ last'.op \in IgnoredOps \cup {"edit_rejected"}

\* C24: a stop, delete or snooze for an id that is in neither the table
\* nor the storage returns without raising and changes no item, timer or
\* session; an edit for such an id changes nothing either and raises to the
\* caller.
C24_UnknownId ==
    [][UnknownIdHandled =>
          /\ UNCHANGED <<heap, active_items, disk, scheduled_callbacks, trigQ, events,
                         stop_events, sess, playback_tasks, playback_sessions, tasks>>
          /\ last'.op \in {"stop_ignored", "snooze_ignored", "delete_ignored",
                           "edit_rejected"}]_vars

\* C25: when start-up has loaded a once item that was stored as scheduled
\* for an instant already past, the item is expired, no timer is armed and
\* no trigger has been queued.
C25_LoadExpiresMissedOnce ==
    (/\ last.op = "load_done"
     /\ disk # NoItem
     /\ disk.status = "scheduled"
     /\ disk.repeat = "once"
     /\ disk.sched < last.at) =>
        /\ Cur # NoItem
        /\ Cur.status = "expired"
        /\ ~TimerArmed
        /\ trigQ = 0

\* A daily alarm that rings on a player reporting its state, and no service
\* call at all.
InitManualStop == InitWith({ScheduledDaily, SnoozedDaily, ActiveDaily}, 0, 1)
NextManualStop ==
    \/ async_load_items
    \/ Tick
    \/ TimerFire
    \/ \E i \in TaskIds : TriggerBegin(i) \/ TriggerSaved(i)
    \/ \E s \in SessIds : SessBegin(s) \/ SessLoopExit(s) \/ SessCancelled(s) \/ SessSaved(s)
    \/ \E s \in SessIds, p \in MediaPositions, d \in MediaDurations :
           MediaPlayingReported(s, p, d)
    \/ \E s \in SessIds, i \in TaskIds : MediaIdleReported(s, i)
    \/ \E s \in SessIds, family \in PlayerFamilies : TtsPauseReported(s, family)
    \/ \E i \in TaskIds : StopQueuedBegin(i) \/ StopAfterTask(i) \/ StopDecide(i)
                          \/ StopSaved(i)
SpecManualStop == InitManualStop /\ [][NextManualStop]_vars

\* The player of a ringing daily alarm goes idle 2 s into a track of 180 s.
IdleEarly(s) ==
    /\ sess[s].st = "running"
    /\ sess[s].media_started /\ sess[s].position = 2 /\ sess[s].duration = 180
    /\ sess'[s].st = "running" /\ ~sess'[s].media_started
    /\ Cur # NoItem /\ Cur.status = "active" /\ Cur.repeat = "daily"

\* The stop_item call queued by that classification returns.
ManualStopReturns(i) ==
    /\ tasks[i].kind = "auto_stop" /\ tasks[i].reason = "position_delta"
    /\ tasks[i].pc # "stop_queued"
    /\ tasks'[i].kind = "none"

\* C26: when the player of a ringing daily alarm reports playing and then
\* idle 2 s into a 180 s track, the transition is classified as a manual
\* stop (stop_item is queued once and the stop event is set), and when that
\* stop returns the item is scheduled with exactly one timer armed, for the
\* next daily occurrence of the anchor's time of day, the anchor's time of
\* day being what it was.
C26_ManualStopOfDaily ==
    [][/\ \A s \in SessIds :
             IdleEarly(s) =>
                 /\ events'[sess'[s].ev] = "set"
                 /\ Cardinality({i \in TaskIds : tasks'[i].pc = "stop_queued"}) = 1
       /\ \A i \in TaskIds :
             ManualStopReturns(i) =>
                 /\ CurAfter # NoItem
                 /\ CurAfter.status = "scheduled"
                 /\ scheduled_callbacks' = CurAfter.sched
                 /\ trigQ' = 0
                 /\ CurAfter.sched > now
                 /\ CurAfter.sched - DayLen <= now
                 /\ TimeOfDay(CurAfter.sched) = TimeOfDay(tasks[i].pre.canon)
                 /\ TimeOfDay(CurAfter.canon) = TimeOfDay(tasks[i].pre.canon)]_vars

\* An item that is stopped, and stopped again once the first call has
\* returned; no timer fires and the player reports nothing.
InitStopRetry ==
    InitWith({ScheduledDaily, ActiveOnce, ActiveDaily, ActiveWeekends, DisabledDaily,
              ActiveCustomNoDays}, MaxSeqCmds, 1)
NextStopRetry ==
    \/ async_load_items
    \/ Tick
    \/ \E s \in SessIds : SessBegin(s) \/ SessCancelled(s)
    \/ \E i \in TaskIds : StopBegin(i)
    \/ \E i \in TaskIds : StopAfterTask(i) \/ StopDecide(i) \/ StopSaved(i)
SpecStopRetry == InitStopRetry /\ [][NextStopRetry]_vars

\* C27: a command is safe to retry.  For stop: when the second of two stop
\* calls on the id returns, with no timer fired and no device event since
\* the first returned, the item's status, scheduled_time and canonical anchor
\* are what the first call left, and the timer is armed as the first call
\* armed it (at scheduled_time when the item is scheduled, not at all
\* otherwise).
C27_StopRetrySafe ==
    (last.op = "stop_done" /\ ncmd = MaxSeqCmds) =>
        /\ Cur # NoItem
        /\ Cur.status = last.pre.status
        /\ Cur.sched = last.pre.sched
        /\ Cur.canon = last.pre.canon
        /\ scheduled_callbacks =
               IF last.pre.status = "scheduled" THEN last.pre.sched ELSE NoTime

(***************************************************************************)
(* _ensure_future_schedule_time on its own                                 *)
(***************************************************************************)
\* The candidate instants, the reference instants and the repeat patterns
\* the function is applied to.
PureCandidates == (StartTick - MaxDaysBack * DayLen) .. (StartTick + 2 * DayLen)
PureReferences == (StartTick - DayLen) .. (StartTick + DayLen)
PureRepeatDays == {{}, {0}, {2, 5}}
PureInputs ==
    {Item("scheduled", TRUE, rp, ds, c, c) :
        rp \in Repeats \ {"custom"}, ds \in {{}}, c \in PureCandidates}
    \cup {Item("scheduled", TRUE, "custom", ds, c, c) :
            ds \in PureRepeatDays, c \in PureCandidates}

\* The item holding the arguments is in disk, the reference in now.
InitPure ==
    /\ now \in PureReferences
    /\ loaded = TRUE
    /\ heap = [c \in Cells |-> NoItem]
    /\ active_items = 0
    /\ scheduled_callbacks = NoTime
    /\ trigQ = 0
    /\ events = [e \in Evs |-> "free"]
    /\ stop_events = 0
    /\ sess = [s \in SessIds |-> NoSess]
    /\ playback_tasks = 0
    /\ playback_sessions = 0
    /\ tasks = [i \in TaskIds |-> NoTask]
    /\ disk \in PureInputs
    /\ ncmd = 0
    /\ budget = MaxSeqCmds
    /\ par = 1
    /\ last = NoStep
    /\ NoVolume
    /\ volume_level = NoTime

\* The function applied to the arguments: the table gets the item with the
\* result as its scheduled_time.
EnsureFutureFirst(force_advance) ==
    /\ ncmd = 0
    /\ active_items = 0
    /\ ncmd' = 1
    /\ LET r == ensure_future_schedule_time(disk.sched, disk.repeat, disk.days, now,
                                            force_advance)
       IN Commit([heap EXCEPT ![1] = [disk EXCEPT !.sched = r]], 1, tasks, events,
                 stop_events, sess)
    /\ last' = [op |-> "ensure_future_schedule_time", pre |-> disk, at |-> now,
                minutes |-> 0]
    /\ UNCHANGED <<now, loaded, par, budget, volvars, scheduled_callbacks, trigQ, playback_tasks,
                   playback_sessions, disk>>

\* The function applied, without force_advance, to its own result, with the
\* same pattern, days and reference.
EnsureFutureAgain ==
    /\ ncmd = 1
    /\ active_items # 0
    /\ Cur.sched # NoTime
    /\ ncmd' = 2
    /\ LET r == ensure_future_schedule_time(Cur.sched, Cur.repeat, Cur.days, now, FALSE)
       IN Commit([heap EXCEPT ![active_items].sched = r], active_items, tasks, events,
                 stop_events, sess)
    /\ last' = [op |-> "ensure_future_again", pre |-> Cur, at |-> now, minutes |-> 0]
    /\ UNCHANGED <<now, loaded, par, budget, volvars, scheduled_callbacks, trigQ, playback_tasks,
                   playback_sessions, disk>>

NextPure ==
    \/ \E force_advance \in BOOLEAN : EnsureFutureFirst(force_advance)
    \/ EnsureFutureAgain
SpecPure == InitPure /\ [][NextPure]_vars

\* The function has just been applied: last.pre holds its arguments, last.at
\* the reference, and the table its result.
Applied == last.op \in {"ensure_future_schedule_time", "ensure_future_again"}

\* C28: for daily, weekdays and weekends, every candidate and every
\* reference, the result is an instant whose weekday is in the pattern's set
\* (all seven, 0..4, 5..6), that is strictly after the reference and that is
\* a whole number of days from the candidate.  (The result is a function of
\* the arguments: the operator has no other input.)
C28_RepeatingResultAllowedAndFuture ==
    (Applied /\ last.pre.repeat \in {"daily", "weekdays", "weekends"}) =>
        /\ Cur.sched # NoTime
        /\ Weekday(Cur.sched) \in
               (CASE last.pre.repeat = "daily" -> 0 .. 6
                  [] last.pre.repeat = "weekdays" -> 0 .. 4
                  [] last.pre.repeat = "weekends" -> 5 .. 6)
        /\ Cur.sched > last.at
        /\ (Cur.sched - last.pre.sched) % DayLen = 0
        /\ Cur.sched = ensure_future_schedule_time(last.pre.sched, last.pre.repeat,
                                                   last.pre.days, last.at, FALSE)
           \/ Cur.sched = ensure_future_schedule_time(last.pre.sched, last.pre.repeat,
                                                      last.pre.days, last.at, TRUE)

\* A weekends item whose candidate is a weekday more than two days before
\* the reference has been normalised.
C28_WeekendsFromPastWeekday ==
    /\ last.op = "ensure_future_schedule_time"
    /\ last.pre.repeat = "weekends"
    /\ Weekday(last.pre.sched) \in 0 .. 4
    /\ last.pre.sched + 2 * DayLen < last.at
    /\ Cur.sched > last.pre.sched + 2 * DayLen

\* C29: the function is idempotent: applied without force_advance to its
\* own result, with the same pattern, days and reference, it returns that
\* result, for every pattern including once and custom.
C29_Idempotent ==
    last.op = "ensure_future_again" => Cur.sched = last.pre.sched

\* C30: for repeat once the result is not before the reference, whatever
\* the candidate, candidates more than a day before the reference included.
C30_OnceNotBeforeReference ==
    (last.op = "ensure_future_schedule_time" /\ last.pre.repeat = "once") =>
        Cur.sched >= last.at

\* C31: an item with repeat=custom and no valid repeat_days is a once item
\* throughout: when it has fired and the stop of the ringing item returns, it
\* is expired and no timer is armed for another occurrence.
C31_CustomWithoutDaysExpires ==
    (/\ last.op = "stop_done"
     /\ last.pre.status = "active"
     /\ last.pre.repeat = "custom" /\ last.pre.days = {}) =>
        /\ Cur # NoItem
        /\ Cur.status = "expired"
        /\ scheduled_callbacks = NoTime

(***************************************************************************)
(* The volume stack of one player (media_player.py)                        *)
(***************************************************************************)
\* Levels in tenths: what the player may show at the start (NoTime when its
\* state carries no volume and it cannot be woken), and the override of each
\* item.
PlayerLevels == {NoTime, 5}
OverrideOf(it) == IF it = "A" THEN 3 ELSE 2

mainvars == <<now, loaded, heap, active_items, scheduled_callbacks, trigQ, events,
              stop_events, sess, playback_tasks, playback_sessions, tasks, disk, ncmd,
              budget, par, last>>

HasEntry(it) ==
    \E k \in DOMAIN player_volume_stack : player_volume_stack[k].item_id = it
Front(stack) == SubSeq(stack, 1, Len(stack) - 1)
Top(stack) == stack[Len(stack)]

\* An apply that takes a snapshot and pushes an entry in every cycle.
apply_volume_override_every_cycle(it) ==
    /\ player_volume_stack' =
           IF volume_level = NoTime THEN player_volume_stack
           ELSE Append(player_volume_stack,
                       [item_id |-> it, volume |-> volume_level, restore_ready |-> FALSE])
    /\ volume_queue' = Append(volume_queue, [by |-> it, level |-> OverrideOf(it)])
    /\ volume_calls' = [volume_calls EXCEPT ![it].pc = "apply_set",
                                            ![it].applied = @ + 1]
    /\ bottom_snapshot' =
           IF player_volume_stack = <<>> /\ volume_level # NoTime THEN volume_level
           ELSE bottom_snapshot
    /\ UNCHANGED volume_level

\* _async_apply_volume_override up to its volume_set call: an item without
\* an entry takes a snapshot of the level and, when there is one, pushes its
\* entry; then the override is asked for.
apply_volume_override(it) ==
    /\ player_volume_stack' =
           IF HasEntry(it) \/ volume_level = NoTime THEN player_volume_stack
           ELSE Append(player_volume_stack,
                       [item_id |-> it, volume |-> volume_level, restore_ready |-> FALSE])
    /\ volume_queue' = Append(volume_queue, [by |-> it, level |-> OverrideOf(it)])
    /\ volume_calls' = [volume_calls EXCEPT ![it].pc = "apply_set",
                                            ![it].applied = @ + 1]
    /\ bottom_snapshot' =
           IF player_volume_stack = <<>> /\ volume_level # NoTime THEN volume_level
           ELSE bottom_snapshot
    /\ UNCHANGED volume_level

\* A loop that pops the top entry whether it is ready or not.
process_volume_stack_pops_unready(it, stack, calls) ==
    IF stack # <<>>
    THEN /\ player_volume_stack' = Front(stack)
         /\ volume_queue' = Append(volume_queue, [by |-> it, level |-> Top(stack).volume])
         /\ volume_calls' = [calls EXCEPT ![it].pc = "restore_set"]
    ELSE /\ player_volume_stack' = stack
         /\ UNCHANGED volume_queue
         /\ volume_calls' = [calls EXCEPT ![it].pc = "idle"]

\* _async_process_volume_stack from the top of its loop, run by item it on
\* the stack as it stands: a ready top entry is popped and its snapshot asked
\* for, anything else ends the call.
process_volume_stack(it, stack, calls) ==
    IF stack # <<>> /\ Top(stack).restore_ready
    THEN /\ player_volume_stack' = Front(stack)
         /\ volume_queue' = Append(volume_queue, [by |-> it, level |-> Top(stack).volume])
         /\ volume_calls' = [calls EXCEPT ![it].pc = "restore_set"]
    ELSE /\ player_volume_stack' = stack
         /\ UNCHANGED volume_queue
         /\ volume_calls' = [calls EXCEPT ![it].pc = "idle"]

\* restore_player_volume: the item's entry is marked ready, and the stack is
\* processed; without an entry nothing happens.
restore_player_volume(it) ==
    /\ UNCHANGED <<volume_level, bottom_snapshot>>
    /\ IF ~HasEntry(it)
       THEN /\ volume_calls' = [volume_calls EXCEPT ![it].released = TRUE]
            /\ UNCHANGED <<player_volume_stack, volume_queue>>
       ELSE process_volume_stack(
                it,
                [k \in DOMAIN player_volume_stack |->
                    IF player_volume_stack[k].item_id = it
                    THEN [player_volume_stack[k] EXCEPT !.restore_ready = TRUE]
                    ELSE player_volume_stack[k]],
                [volume_calls EXCEPT ![it].released = TRUE])

\* A playback cycle of the item applies its override.
ApplyVolumeOverride(it) ==
    /\ volume_calls[it].pc = "idle"
    /\ ~volume_calls[it].released
    /\ volume_calls[it].applied < MaxCycles
    /\ apply_volume_override(it)
    /\ UNCHANGED mainvars

\* The stop of the item asks for the restore.
RestorePlayerVolume(it) ==
    /\ volume_calls[it].pc = "idle"
    /\ ~volume_calls[it].released
    /\ restore_player_volume(it)
    /\ UNCHANGED mainvars

\* _async_set_player_volume: the player carries out the oldest volume_set
\* call and the caller resumes: an apply returns, a restore goes round its
\* loop once more.
VolumeSetDone ==
    /\ volume_queue # <<>>
    /\ volume_level' = Head(volume_queue).level
    /\ LET it == Head(volume_queue).by
       IN IF volume_calls[it].pc = "restore_set"
             /\ player_volume_stack # <<>> /\ Top(player_volume_stack).restore_ready
          THEN /\ player_volume_stack' = Front(player_volume_stack)
               /\ volume_queue' = Append(Tail(volume_queue),
                                         [by |-> it,
                                          level |-> Top(player_volume_stack).volume])
               /\ UNCHANGED volume_calls
          ELSE /\ volume_queue' = Tail(volume_queue)
               /\ volume_calls' = [volume_calls EXCEPT ![it].pc = "idle"]
               /\ UNCHANGED player_volume_stack
    /\ UNCHANGED <<mainvars, bottom_snapshot>>

\* Two items on one player, each applying its override in up to MaxCycles
\* cycles and then releasing it, in any order.
InitVolume == InitLevel({NoItem}, 0, 1, PlayerLevels)
NextVolume ==
    \/ \E it \in VolItems : ApplyVolumeOverride(it) \/ RestorePlayerVolume(it)
    \/ VolumeSetDone
SpecVolume == InitVolume /\ [][NextVolume]_vars

Entries(it) ==
    {k \in DOMAIN player_volume_stack : player_volume_stack[k].item_id = it}
Unmarked(stack) ==
    [k \in DOMAIN stack |-> [item_id |-> stack[k].item_id, volume |-> stack[k].volume]]
AllReleased ==
    /\ \A it \in VolItems : volume_calls[it].released /\ volume_calls[it].pc = "idle"
    /\ volume_queue = <<>>

\* C32: on the stack of one player an item has at most one entry, and an
\* apply of an item that has one leaves the stack as it is; the stack only
\* shrinks by its top entry, which is then marked ready and whose snapshot
\* is asked for; a release of an entry below a top entry that is not ready
\* changes neither the entries nor the level nor the calls in flight; and
\* once every item has released and every call has returned the stack is
\* empty and the level is the snapshot of the bottom entry.
C32_VolumeStack ==
    [][/\ \A it \in VolItems : Cardinality(Entries(it)) <= 1
       /\ \A it \in VolItems :
             (HasEntry(it) /\ volume_calls'[it].applied > volume_calls[it].applied) =>
                 player_volume_stack' = player_volume_stack
       /\ Len(player_volume_stack') < Len(player_volume_stack) =>
             /\ player_volume_stack' = Front(player_volume_stack)
             /\ \/ Top(player_volume_stack).restore_ready
                \/ volume_calls'[Top(player_volume_stack).item_id].released
                   /\ ~volume_calls[Top(player_volume_stack).item_id].released
             /\ volume_queue' # <<>>
             /\ volume_queue'[Len(volume_queue')].level = Top(player_volume_stack).volume
       /\ \A it \in VolItems :
             (/\ ~volume_calls[it].released /\ volume_calls'[it].released
              /\ HasEntry(it)
              /\ Top(player_volume_stack).item_id # it
              /\ ~Top(player_volume_stack).restore_ready) =>
                 /\ Unmarked(player_volume_stack') = Unmarked(player_volume_stack)
                 /\ UNCHANGED <<volume_level, volume_queue>>
       /\ (AllReleased' /\ bottom_snapshot' # NoTime) =>
             /\ player_volume_stack' = <<>>
             /\ volume_level' = bottom_snapshot']_vars

\* Both items have applied in every cycle; the item of the bottom entry has
\* released and its entry waits, marked ready, under a top entry that is not.
C32_ReleasedBelowTop ==
    /\ \A it \in VolItems : volume_calls[it].applied = MaxCycles
    /\ Len(player_volume_stack) = 2
    /\ volume_calls[player_volume_stack[1].item_id].released
    /\ player_volume_stack[1].restore_ready
    /\ ~player_volume_stack[2].restore_ready

\* Item A has applied 0.3 on a player at 0.5, then item B has applied 0.2;
\* flagA and flagB say whose entry is marked ready.
Overlapping(flagA, flagB) ==
    player_volume_stack = <<[item_id |-> "A", volume |-> 5, restore_ready |-> flagA],
                            [item_id |-> "B", volume |-> 3, restore_ready |-> flagB]>>
Releases(it) == ~volume_calls[it].released /\ volume_calls'[it].released

\* C33 as stated: when A releases first nothing is restored; when B then
\* releases the player is restored to 0.2, and then, as the entry of A pops,
\* to the snapshot of A.
C33_RestoredToOverrideOfB ==
    [][/\ (Overlapping(FALSE, FALSE) /\ Releases("A")) =>
             (Overlapping(TRUE, FALSE)' /\ UNCHANGED <<volume_level, volume_queue>>)
       /\ (Overlapping(TRUE, FALSE) /\ Releases("B")) =>
             /\ Len(player_volume_stack') = 1
             /\ volume_queue' = Append(volume_queue, [by |-> "B", level |-> 2])]_vars

\* C33, amended: when A releases first nothing is restored; when B then
\* releases, the entry of B pops and the player is restored to the snapshot
\* of B, which is the 0.3 that A had applied, and then, as the entry of A
\* pops, to the snapshot of A.
C33_RestoredToSnapshots ==
    [][/\ (Overlapping(FALSE, FALSE) /\ Releases("A")) =>
             (Overlapping(TRUE, FALSE)' /\ UNCHANGED <<volume_level, volume_queue>>)
       /\ (Overlapping(TRUE, FALSE) /\ Releases("B")) =>
             /\ player_volume_stack' = Front(player_volume_stack)
             /\ volume_queue' = Append(volume_queue, [by |-> "B", level |-> 3])
       /\ (/\ player_volume_stack = <<[item_id |-> "A", volume |-> 5,
                                        restore_ready |-> TRUE]>>
           /\ volume_calls["B"].pc = "restore_set"
           /\ volume_queue # <<>> /\ Head(volume_queue) = [by |-> "B", level |-> 3]
           /\ volume_level' # volume_level) =>
             /\ volume_level' = 3
             /\ player_volume_stack' = <<>>
             /\ volume_queue'[Len(volume_queue')] = [by |-> "B", level |-> 5]]_vars

\* A released first, B after it; the player is back at 0.3, both entries
\* have popped and the snapshot of A is asked for.
C33_BackAtOverrideOfA ==
    /\ volume_calls["A"].released /\ volume_calls["B"].released
    /\ player_volume_stack = <<>>
    /\ volume_level = 3
    /\ volume_queue = <<[by |-> "B", level |-> 5]>>

(***************************************************************************)
(* A player whose commands fail                                            *)
(***************************************************************************)
\* _PlaybackSession.run at the top of its loop: the stop event is clear and
\* the item is there and enabled, so _run_cycle calls play_on_media_player.
CycleBegin(s) ==
    /\ sess[s].st = "running"
    /\ ~sess[s].cancel
    /\ events[sess[s].ev] = "clear"
    /\ active_items # 0 /\ heap[active_items].enabled
    /\ Commit(heap, active_items, tasks, events, stop_events,
              [sess EXCEPT ![s].st = "cycle", ![s].media_started = FALSE])
    /\ Step("cycle_begin", NoItem)
    /\ UNCHANGED <<now, loaded, par, budget, volvars, scheduled_callbacks, trigQ,
                   playback_tasks, playback_sessions, disk, ncmd>>

\* The announce or play call raises: play_on_media_player logs the error and
\* returns, _run_cycle returns, and run is back at the top of its loop.  The
\* failed cycles are counted up to MaxCycles.
CycleFails(s) ==
    /\ sess[s].st = "cycle"
    /\ Commit(heap, active_items, tasks, events, stop_events,
              [sess EXCEPT ![s] = [@ EXCEPT !.st = "running",
                                            !.failed = IF @ < MaxCycles THEN @ + 1
                                                       ELSE @]])
    /\ Step("cycle_failed", NoItem)
    /\ UNCHANGED <<now, loaded, par, budget, volvars, scheduled_callbacks, trigQ,
                   playback_tasks, playback_sessions, disk, ncmd>>

\* Items that ring on a player every command of which fails; no service call
\* and no report of the player.  Every step that stays possible is taken.
InitFailing ==
    InitWith({ScheduledOnce, ScheduledDaily, SnoozedDaily, ActiveOnce, ActiveDaily,
              ActiveWeekends, ActiveLateDaily}, 0, 1)
NextFailing ==
    \/ async_load_items
    \/ Tick
    \/ TimerFire
    \/ \E i \in TaskIds : TriggerBegin(i) \/ TriggerSaved(i)
    \/ \E s \in SessIds : SessBegin(s) \/ CycleBegin(s) \/ CycleFails(s)
FairSpecFailing ==
    /\ InitFailing
    /\ [][NextFailing]_vars
    /\ WF_vars(async_load_items)
    /\ WF_vars(TimerFire)
    /\ \A i \in TaskIds : WF_vars(TriggerBegin(i)) /\ WF_vars(TriggerSaved(i))
    /\ \A s \in SessIds : WF_vars(SessBegin(s)) /\ WF_vars(CycleBegin(s))
                            /\ WF_vars(CycleFails(s))

\* C34: when the commands to the player fail in every cycle, an item that is
\* active eventually is no longer active, without any stop command: it
\* becomes stopped or expired, or scheduled for its next occurrence.
C34_FailingPlayerEndsActive ==
    (Cur # NoItem /\ Cur.status = "active")
        ~> (Cur # NoItem /\ Cur.status \in {"stopped", "expired", "scheduled"})

\* The stop_item calls a session has queued and that have not begun.
QueuedStops ==
    Cardinality({i \in TaskIds : tasks[i].kind = "auto_stop" /\ tasks[i].pc = "stop_queued"})

\* C35: a session that classifies a transition as a manual stop calls stop
\* exactly once for the firing, whatever the family of the player and however
\* many such events arrive, and sets its stop event: a step that queues
\* stop_item queues one call, is taken by a running session whose stop event
\* is clear, and sets that event.
C35_ManualStopCallsStopOnce ==
    [][QueuedStops' > QueuedStops =>
          /\ QueuedStops' = QueuedStops + 1
          /\ \E s \in SessIds :
                /\ sess[s].st = "running"
                /\ events[sess[s].ev] = "clear"
                /\ events'[sess'[s].ev] = "set"]_vars

\* The player of session s, whose sound had started, reports idle.
IdleReported(s) ==
    /\ sess[s].st = "running" /\ sess[s].media_started
    /\ events[sess[s].ev] = "clear"
    /\ ~sess'[s].media_started

\* C36: for a session whose sound has started, a transition into idle with
\* no reason code, no user and no token of the session's stop is classified
\* manual (stop_item queued, stop event set) exactly when duration - position
\* exceeds max(3 s, 15 % of the duration), position 0 included; classified
\* natural, it queues no stop, the item stays active and the session stays in
\* its loop.
C36_ManualExactlyWhenRemainingExceeds ==
    [][\A s \in SessIds :
          IdleReported(s) =>
              LET remaining == sess[s].duration - sess[s].position
                  manual == remaining > 3 /\ 100 * remaining > 15 * sess[s].duration
              IN IF manual
                 THEN /\ QueuedStops' = QueuedStops + 1
                      /\ events'[sess'[s].ev] = "set"
                 ELSE /\ QueuedStops' = QueuedStops
                      /\ events'[sess'[s].ev] = "clear"
                      /\ sess'[s].st = "running"
                      /\ CurAfter # NoItem /\ CurAfter.status = "active"]_vars

(***************************************************************************)
(* One cycle of play_on_media_player for an item with a message            *)
(***************************************************************************)
\* The session's place in its cycle changes and nothing else.
CycleStep(s, st, op) ==
    /\ Commit(heap, active_items, tasks, events, stop_events,
              [sess EXCEPT ![s].st = st,
                           ![s].media_started = @ \/ st = "tts_playing"])
    /\ Step(op, NoItem)
    /\ UNCHANGED <<now, loaded, par, budget, volvars, scheduled_callbacks, trigQ,
                   playback_tasks, playback_sessions, disk, ncmd>>
StopEventSet(s) == events[sess[s].ev] = "set"

\* Players that take an announcement; a Spotify player gets none.
AnnouncingFamilies == PlayerFamilies \ {"spotify"}

\* After the announcement: a player that is neither Spotify nor Music
\* Assistant is stopped first, for the others the sound is asked for at once.
after_tts(family) == IF family = "home_assistant" THEN "pre_sound_stop" ELSE "sound_call"

\* The family of the item's player is looked up and the announcement is
\* asked for.
TtsCall(s, family) ==
    /\ sess[s].st = "cycle"
    /\ Commit(heap, active_items, tasks, events, stop_events,
              [sess EXCEPT ![s].st = "tts_call", ![s].family = family])
    /\ Step("tts_call", NoItem)
    /\ UNCHANGED <<now, loaded, par, budget, volvars, scheduled_callbacks, trigQ,
                   playback_tasks, playback_sessions, disk, ncmd>>

\* The announce call returns: the cycle ends if the stop event is set, else
\* it waits up to 4 s for the player to start.
TtsCallReturns(s) ==
    /\ sess[s].st = "tts_call"
    /\ CycleStep(s, IF StopEventSet(s) THEN "running" ELSE "tts_wait", "tts_returned")

\* wait_started returns, the player having started or not: the cycle ends if
\* the stop event is set; a started announcement is polled; one that never
\* started is given up.
TtsWaitEnds(s, started) ==
    /\ sess[s].st = "tts_wait"
    /\ CycleStep(s, IF StopEventSet(s) THEN "running"
                    ELSE IF started THEN "tts_playing" ELSE after_tts(sess[s].family),
                 "tts_wait_ended")

\* The poll wakes up and the player plays no more, or the polls are used up:
\* the cycle ends if the stop event is set, else it goes on to the sound.
TtsPollEnds(s) ==
    /\ sess[s].st = "tts_playing"
    /\ CycleStep(s, IF StopEventSet(s) THEN "running" ELSE after_tts(sess[s].family),
                 "tts_ended")

\* stop_media_player returns and the sound is asked for.
SoundCall(s) ==
    /\ sess[s].st = "pre_sound_stop"
    /\ CycleStep(s, "sound_call", "sound_call")

\* The sound ends or the stop event is set: the cycle returns.
SoundEnds(s) ==
    /\ sess[s].st = "sound_call"
    /\ CycleStep(s, "running", "cycle_returned")

\* A ringing item with a message, its cycles, and somebody stopping the
\* player at any moment.
InitCycle ==
    InitWith({ActiveOnce, ActiveDaily, ActiveWeekends, ActiveLateDaily}, 0, 1)
NextCycle ==
    \/ async_load_items
    \/ Tick
    \/ \E s \in SessIds : SessBegin(s) \/ SessLoopExit(s) \/ SessSaved(s)
    \/ \E s \in SessIds : ExternalMediaStop(s)
    \/ \E s \in SessIds : CycleBegin(s) \/ TtsCallReturns(s) \/ TtsPollEnds(s)
    \/ \E s \in SessIds, family \in AnnouncingFamilies : TtsCall(s, family)
    \/ \E s \in SessIds, started \in BOOLEAN : TtsWaitEnds(s, started)
    \/ \E s \in SessIds : SoundCall(s) \/ SoundEnds(s)
SpecCycle == InitCycle /\ [][NextCycle]_vars

\* The sound is asked for in this step.
SoundRequested(s) == sess[s].st # "sound_call" /\ sess'[s].st = "sound_call"

\* C37: in a cycle of an item with a message the sound is asked for only
\* after the announcement has been asked for and has ended or failed to
\* start, and never once the stop event has been set between the two
\* requests; and a wait of the cycle that finds the stop event set ends the
\* cycle.
C37_SoundAfterAnnouncementUnlessStopped ==
    [][\A s \in SessIds :
          /\ SoundRequested(s) =>
                /\ sess[s].st \in {"tts_wait", "tts_playing", "pre_sound_stop"}
                /\ ~StopEventSet(s)
          /\ (sess[s].st \in {"tts_call", "tts_wait", "tts_playing"}
              /\ StopEventSet(s) /\ sess'[s].st # sess[s].st) =>
                sess'[s].st = "running"]_vars

\* The stop_item call queued by the session writes the item in this step.
QueuedStopWrites(i) ==
    tasks[i].kind = "auto_stop" /\ tasks[i].pc = "stop_io" /\ tasks'[i].pc # "stop_io"

\* The stop_item call queued by the session returns in this step.
QueuedStopReturns(i) ==
    tasks[i].kind = "auto_stop" /\ tasks[i].pc = "stop_saved" /\ tasks'[i].kind = "none"

\* C38: the stop queued by a session that detected a manual stop writes the
\* item only once the session has terminated, and when both the session's
\* teardown and that stop have run the daily item has advanced exactly once:
\* it is scheduled for the first daily occurrence after now, with the timer
\* armed for it.
C38_StopAfterSessionAdvancesOnce ==
    [][\A i \in TaskIds :
          /\ QueuedStopWrites(i) => \A s \in SessIds : sess[s].st = "none"
          /\ QueuedStopReturns(i) =>
                /\ CurAfter # NoItem
                /\ CurAfter.status = "scheduled"
                /\ CurAfter.sched > now
                /\ CurAfter.sched - DayLen <= now
                /\ scheduled_callbacks' = CurAfter.sched]_vars

(***************************************************************************)
(* A delete that overtakes a command in flight                             *)
(***************************************************************************)
\* An edit or a reschedule is suspended in its save.
SavePending ==
    \E j \in TaskIds : tasks[j].pc \in {"edit_saved", "resch_saved"}

\* The first command: an edit or a reschedule of the item.
EditFirst(i, ch) == ncmd = 0 /\ EditBegin(i, ch)
RescheduleFirst(i, ch) == ncmd = 0 /\ RescheduleBegin(i, ch)

\* The second command: a delete, called while the first is suspended.
DeleteDuringSave(i) == ncmd > 0 /\ SavePending /\ DeleteBegin(i)

InitDeleteRace ==
    InitWith({ScheduledOnce, ScheduledDaily, DisabledDaily}, MaxSeqCmds, MaxSeqCmds)
NextDeleteRace ==
    \/ async_load_items
    \/ Tick
    \/ \E i \in TaskIds, ch \in EditChanges : EditFirst(i, ch)
    \/ \E i \in TaskIds, ch \in RescheduleChanges : RescheduleFirst(i, ch)
    \/ \E i \in TaskIds : EditSaved(i) \/ RescheduleSaved(i)
    \/ \E i \in TaskIds : DeleteDuringSave(i)
    \/ \E i \in TaskIds : StopDecide(i) \/ StopSaved(i) \/ DeletePop(i)
SpecDeleteRace == InitDeleteRace /\ [][NextDeleteRace]_vars

\* The id is in neither the table nor the storage.
Absent == active_items = 0 /\ disk = NoItem

\* C39: once delete has completed, a step of a command that was in flight
\* when the delete ran leaves the id out of the table and of the storage and
\* arms no timer for it.
C39_DeletedStaysAbsent ==
    [][Absent => (Absent' /\ scheduled_callbacks' = NoTime /\ trigQ' = 0)]_vars

(***************************************************************************)
(* The volume override of a ringing item                                   *)
(***************************************************************************)
\* The item of the table on the stack of its player.
RingingItem == "A"

\* A cycle begins and play_on_media_player applies the item's override.
CycleWithOverride(s) ==
    /\ sess[s].st = "running"
    /\ ~sess[s].cancel
    /\ events[sess[s].ev] = "clear"
    /\ active_items # 0 /\ heap[active_items].enabled
    /\ volume_calls[RingingItem].pc = "idle"
    /\ volume_calls[RingingItem].applied < MaxCycles
    /\ Commit(heap, active_items, tasks, events, stop_events,
              [sess EXCEPT ![s].st = "cycle", ![s].media_started = FALSE])
    /\ apply_volume_override(RingingItem)
    /\ Step("cycle_begin", NoItem)
    /\ UNCHANGED <<now, loaded, par, budget, scheduled_callbacks, trigQ,
                   playback_tasks, playback_sessions, disk, ncmd>>

\* The volume_set call of the override has returned and the announcement is
\* asked for.
TtsCallAfterOverride(s, family) ==
    /\ volume_calls[RingingItem].pc = "idle"
    /\ TtsCall(s, family)

\* stop_item after the device stop: it asks for the restore of the player's
\* volume.
StopRestore(i) ==
    /\ tasks[i].pc = "stop_io"
    /\ volume_calls[RingingItem].pc = "idle"
    /\ ~volume_calls[RingingItem].released
    /\ restore_player_volume(RingingItem)
    /\ UNCHANGED mainvars

\* stop_item once restore_player_volume has returned.
StopDecideAfterRestore(i) ==
    /\ volume_calls[RingingItem].released
    /\ volume_calls[RingingItem].pc = "idle"
    /\ StopDecide(i)

\* A ringing item on a player whose level is known or not, its cycles, a
\* stop command and somebody stopping the player.
InitRelease ==
    InitLevel({ActiveOnce, ActiveDaily, ActiveWeekends}, MaxCmds, 1, PlayerLevels)
NextRelease ==
    \/ async_load_items
    \/ Tick
    \/ \E s \in SessIds : SessBegin(s) \/ SessLoopExit(s) \/ SessCancelled(s) \/ SessSaved(s)
    \/ \E s \in SessIds : ExternalMediaStop(s)
    \/ \E s \in SessIds : CycleWithOverride(s)
    \/ VolumeSetDone
    \/ \E s \in SessIds, family \in AnnouncingFamilies : TtsCallAfterOverride(s, family)
    \/ \E s \in SessIds : TtsCallReturns(s) \/ TtsPollEnds(s)
    \/ \E s \in SessIds, started \in BOOLEAN : TtsWaitEnds(s, started)
    \/ \E s \in SessIds : SoundCall(s) \/ SoundEnds(s)
    \/ \E i \in TaskIds : StopBegin(i) \/ StopAfterTask(i) \/ StopRestore(i)
    \/ \E i \in TaskIds : StopDecideAfterRestore(i) \/ StopSaved(i)
SpecRelease == InitRelease /\ [][NextRelease]_vars

\* The item rings no more and nothing of it is in flight.
LeftActive ==
    /\ loaded
    /\ Cur = NoItem \/ Cur.status # "active"
    /\ \A i \in TaskIds : tasks[i].kind = "none"
    /\ \A s \in SessIds : sess[s].st = "none"

\* C40: once the item has left status active, by a stop or by its session
\* ending after somebody stopped the player, no entry of the item stays on
\* the stack of the player without being marked ready for restore.
C40_OverrideReleased ==
    LeftActive =>
        \A k \in Entries(RingingItem) : player_volume_stack[k].restore_ready
====
